---- MODULE Spec2Model ----
(***************************************************************************)
(* WaterPool (src/main.cpp): the start-up sequence of main, the frame loop *)
(* with its four render passes and the buffer swap, the OpenGL context     *)
(* state the passes set and read, and the optical routines of the water    *)
(* and caustic shaders in fixed-point arithmetic.                          *)
(***************************************************************************)
EXTENDS Integers, Sequences, FiniteSets, TLC

VARIABLES
    pc,            \* position of main
    programs,      \* the shader programs linked so far
    gl,            \* the state of the OpenGL context, framebuffer contents included
    width, height, \* int width, height
    running,       \* bool running
    paused,        \* bool paused
    time,          \* float time, in clock ticks
    dt,            \* float dt of the current iteration, in clock ticks
    button_down,   \* std::map<SDL_Keycode, bool> button_down
    camera_position, \* glm::vec3 camera_position: its offset from the initial
                   \* position, in units of 6 * tick
    camera_front,  \* glm::vec3 camera_front
    camera_rotation, view_angle, \* float camera_rotation, view_angle, in quarter turns
    polled,        \* events taken from the queue in the current SDL_PollEvent loop
    frame,         \* buffer swaps so far
    frameLog,      \* the draw calls and the swap of the current loop iteration
    failure,       \* the start-up step that failed, "none" if none did
    out,           \* what was written to std::cout / std::cerr
    exception,     \* the message of the std::runtime_error in flight, "none" if none
    exitStatus,    \* the value main returned, -1 before it returns
    shade,         \* the shader invocation evaluated last (optical specification)
    accum,         \* the colour attachment of caustics_fbo during one caustics draw call
                   \* (accumulation specification)
    window,        \* SDL_Window * window: "null", "created" or "destroyed"
    gl_context,    \* SDL_GLContext gl_context: "null", "created" or "destroyed"
    clock          \* the high-resolution clock and last_frame_start (clock specification)

vars == <<pc, programs, gl, width, height, running, paused, time, dt, button_down,
          camera_position, camera_front, camera_rotation, view_angle, polled, frame,
          frameLog, failure, out, exception, exitStatus, shade, accum, window,
          gl_context, clock>>

mainVars == <<pc, programs, gl, width, height, running, paused, time, dt, button_down,
              camera_position, camera_front, camera_rotation, view_angle, polled,
              frame, frameLog, failure, out, exception, exitStatus, window,
              gl_context>>

resources == <<window, gl_context>>

(***************************************************************************)
(* Bounds of the model.                                                    *)
(***************************************************************************)
MaxFrames == 3      \* loop iterations that reach the buffer swap
MaxEvents == 2      \* events delivered to one SDL_PollEvent loop
MaxDt == 2          \* largest elapsed time of one iteration, in clock ticks

(***************************************************************************)
(* Program constants.                                                      *)
(***************************************************************************)
EXIT_FAILURE == 1
EXIT_SUCCESS == 0
caustics_resolution == 512
floor_width == 40
floor_height == 8

Sizes == {<<800, 600>>, <<640, 360>>}
\* the keys main reads, and the keys the input collaborator presses in the model
AllKeys == {"p", "w", "s", "a", "d", "LCTRL", "SPACE", "LEFT", "RIGHT", "UP", "DOWN"}
Keys == {"p", "w"}

ProgramOrder == <<"caustics_program", "water_program", "env_program", "floor_program">>

\* the sampler uniforms each program declares, with the texture target they read
Samplers(program) ==
    CASE program = "floor_program" -> {<<"tex", "2D">>, <<"caustics_tex", "2D">>}
      [] program = "water_program" -> {<<"tex", "CUBE">>, <<"floor_tex", "2D">>, <<"caustics_tex", "2D">>}
      [] program = "env_program"   -> {<<"tex", "CUBE">>}
      [] OTHER -> {}

\* the uniforms of the model: <<program, name>>
UniformNames ==
    {<<"caustics_program", "time">>, <<"water_program", "time">>,
     <<"env_program", "tex">>,
     <<"floor_program", "tex">>, <<"floor_program", "caustics_tex">>,
     <<"water_program", "tex">>, <<"water_program", "floor_tex">>,
     <<"water_program", "caustics_tex">>,
     <<"water_program", "floor_width">>, <<"water_program", "floor_height">>,
     <<"floor_program", "projection">>, <<"water_program", "projection">>}

TextureUnits == 0..2

(***************************************************************************)
(* The OpenGL context: its initial state and the calls main makes.         *)
(***************************************************************************)
GLInitial ==
    [program     |-> "none",
     drawFbo     |-> "default",
     fboColor    |-> "none",          \* colour attachment of caustics_fbo
     fboComplete |-> FALSE,
     depthTest   |-> FALSE,
     blend       |-> FALSE,
     cullFace    |-> FALSE,
     blendFunc   |-> <<"GL_ONE", "GL_ZERO">>,
     clearColor  |-> <<0, 0, 0, 0>>,
     viewport    |-> <<0, 0>>,
     activeTexture |-> 0,
     tex2D       |-> [u \in TextureUnits |-> "none"],
     texCube     |-> [u \in TextureUnits |-> "none"],
     uniforms    |-> [n \in UniformNames |-> 0],
     misdirected |-> {},    \* uniform writes through a location of a program
                            \* that is not in use: <<program in use, program, name>>
     screenClears |-> 0,    \* clears of the window's framebuffer so far
     causticsData |-> {},   \* origin of the contents of caustics_tex: <<"frame", f>>
                            \* for samples drawn in iteration f, <<"undefined", 0>>
     screen      |-> <<>>]             \* passes drawn to the window since its last clear

glUseProgram(g, p) == [g EXCEPT !.program = p]

glBindFramebuffer(g, f) == [g EXCEPT !.drawFbo = f]

glEnable(g, cap) ==
    CASE cap = "GL_DEPTH_TEST" -> [g EXCEPT !.depthTest = TRUE]
      [] cap = "GL_BLEND"      -> [g EXCEPT !.blend = TRUE]
      [] cap = "GL_CULL_FACE"  -> [g EXCEPT !.cullFace = TRUE]

glDisable(g, cap) ==
    CASE cap = "GL_DEPTH_TEST" -> [g EXCEPT !.depthTest = FALSE]
      [] cap = "GL_BLEND"      -> [g EXCEPT !.blend = FALSE]
      [] cap = "GL_CULL_FACE"  -> [g EXCEPT !.cullFace = FALSE]

glBlendFunc(g, s, d) == [g EXCEPT !.blendFunc = <<s, d>>]

glClearColor(g, c) == [g EXCEPT !.clearColor = c]

glViewport(g, w, h) == [g EXCEPT !.viewport = <<w, h>>]

glActiveTexture(g, u) == [g EXCEPT !.activeTexture = u]

glBindTexture(g, target, t) ==
    IF target = "2D" THEN [g EXCEPT !.tex2D[g.activeTexture] = t]
    ELSE [g EXCEPT !.texCube[g.activeTexture] = t]

\* glUniform*: writes the uniform of the program in use
glUniform(g, p, name, v) ==
    IF g.program = p THEN [g EXCEPT !.uniforms[<<p, name>>] = v]
    ELSE [g EXCEPT !.misdirected = @ \cup {<<g.program, p, name>>}]

\* a framebuffer operation reaches the bound draw framebuffer only if it is complete
Writable(g) == g.drawFbo = "default" \/ (g.fboComplete /\ g.fboColor # "none")

\* glClear(GL_COLOR_BUFFER_BIT | GL_DEPTH_BUFFER_BIT): the caustic texture holds
\* nothing after a clear to zero, the clear colour otherwise
glClear(g) ==
    IF ~Writable(g) THEN g
    ELSE IF g.drawFbo = "default"
         THEN [g EXCEPT !.screen = <<>>, !.screenClears = @ + 1]
    ELSE IF g.clearColor = <<0, 0, 0, 0>> THEN [g EXCEPT !.causticsData = {}]
    ELSE [g EXCEPT !.causticsData = {<<"clear colour", 0>>}]

\* glDrawArrays of pass `pass` in loop iteration f
glDrawArrays(g, pass, f) ==
    IF ~Writable(g) THEN g
    ELSE IF g.drawFbo = "default" THEN [g EXCEPT !.screen = Append(@, pass)]
    ELSE [g EXCEPT !.causticsData = @ \cup {<<"frame", f>>}]

\* the textures a draw call of the program in use can sample
Sampled(g) ==
    {IF s[2] = "2D" THEN g.tex2D[g.uniforms[<<g.program, s[1]>>]]
                    ELSE g.texCube[g.uniforms[<<g.program, s[1]>>]] : s \in Samplers(g.program)}

\* the texture each sampler of the program in use reads: <<sampler, texture>>
Reads(g) ==
    {<<s[1], IF s[2] = "2D" THEN g.tex2D[g.uniforms[<<g.program, s[1]>>]]
                            ELSE g.texCube[g.uniforms[<<g.program, s[1]>>]]>> :
        s \in Samplers(g.program)}

\* glm::perspective(pi / 2, (1.f * width) / height, near, far): the model keeps the
\* aspect ratio of the matrix, in thousandths
perspective(w, h) == (10^3 * w) \div h

\* what the frame log keeps of a draw call or of the swap
LogEntry(g, pass, f, t) ==
    [pass |-> pass, frame |-> f, program |-> g.program, drawFbo |-> g.drawFbo,
     depthTest |-> g.depthTest, blend |-> g.blend, blendFunc |-> g.blendFunc,
     cullFace |-> g.cullFace, viewport |-> g.viewport,
     sampled |-> Sampled(g),
     reads |-> Reads(g),
     screenBefore |-> g.screen,
     screenClears |-> g.screenClears,
     misdirected |-> g.misdirected,
     projection |-> IF <<g.program, "projection">> \in UniformNames
                    THEN {g.uniforms[<<g.program, "projection">>]} ELSE {},
     uTime |-> IF <<g.program, "time">> \in UniformNames
               THEN g.uniforms[<<g.program, "time">>] ELSE -1,
     t |-> t]

\* the clock at auto last_frame_start = clock::now() (602), in ticks; measured_at,
\* previous_at and paused_elapsed keep the history of the measurements: the instants
\* of the last two, and the time elapsed in frames measured with the pause flag set
ClockInitial ==
    [now |-> 0, last_frame_start |-> 0, frames |-> 0,
     measured_at |-> 0, previous_at |-> 0, paused_elapsed |-> 0]

(***************************************************************************)
(* Start-up: main up to the frame loop (src/main.cpp 394-621).             *)
(***************************************************************************)
Init ==
    /\ pc = "SDL_Init"
    /\ programs = <<>>
    /\ gl = GLInitial
    /\ width = 0 /\ height = 0
    /\ running = TRUE
    /\ paused = FALSE
    /\ time = 0
    /\ dt = 0
    /\ button_down = [k \in AllKeys |-> FALSE]
    /\ camera_position = <<0, 0, 0>>
    /\ camera_front = <<0, 0, -1>>
    /\ camera_rotation = 0 /\ view_angle = 0
    /\ polled = 0
    /\ frame = 0
    /\ frameLog = <<>>
    /\ failure = "none"
    /\ out = <<>>
    /\ exception = "none"
    /\ exitStatus = -1
    /\ shade = [stage |-> "none"]
    /\ accum = [stage |-> "none"]
    /\ clock = ClockInitial
    /\ window = "null" /\ gl_context = "null"

\* what no start-up step changes
setupFixed == <<running, paused, time, dt, button_down, camera_position, camera_front,
                camera_rotation, view_angle, polled, frame, frameLog, out, exitStatus,
                shade, accum, clock>>

\* throw std::runtime_error(message): control goes to the handler of main
Throw(step, message) ==
    /\ failure' = step
    /\ exception' = message
    /\ pc' = "catch"

\* a step that succeeded
Proceed(next) ==
    /\ pc' = next
    /\ UNCHANGED <<failure, exception>>

SdlInit ==
    /\ pc = "SDL_Init"
    /\ \E ok \in BOOLEAN :
         IF ok THEN Proceed("SDL_CreateWindow") ELSE Throw("SDL_Init", "SDL_Init: ")
    /\ UNCHANGED <<programs, gl, width, height>>
    /\ UNCHANGED setupFixed
    /\ UNCHANGED resources

CreateWindow ==
    /\ pc = "SDL_CreateWindow"
    /\ \E ok \in BOOLEAN, size \in Sizes :
         IF ok
         THEN /\ Proceed("SDL_GL_CreateContext")
              /\ width' = size[1] /\ height' = size[2]
              /\ window' = "created"
         ELSE /\ Throw("SDL_CreateWindow", "SDL_CreateWindow: ")
              /\ UNCHANGED <<width, height, window>>
    /\ UNCHANGED <<programs, gl, gl_context>>
    /\ UNCHANGED setupFixed

CreateContext ==
    /\ pc = "SDL_GL_CreateContext"
    /\ \E ok \in BOOLEAN :
         IF ok
         THEN /\ Proceed("glewInit")
              /\ gl' = glViewport(GLInitial, width, height)
              /\ gl_context' = "created"
         ELSE /\ Throw("SDL_GL_CreateContext", "SDL_GL_CreateContext: ")
              /\ UNCHANGED <<gl, gl_context>>
    /\ UNCHANGED <<programs, width, height, window>>
    /\ UNCHANGED setupFixed

GlewInit ==
    /\ pc = "glewInit"
    /\ \E ok \in BOOLEAN :
         IF ok THEN Proceed("GLEW_VERSION_3_3") ELSE Throw("glewInit", "glewInit: ")
    /\ UNCHANGED <<programs, gl, width, height>>
    /\ UNCHANGED setupFixed
    /\ UNCHANGED resources

\* CheckVersion reporting the missing version like SetupCausticsFbo does, and going on
CheckVersionWarnOnly ==
    /\ pc = "GLEW_VERSION_3_3"
    /\ \E ok \in BOOLEAN :
         /\ failure' = IF ok THEN failure ELSE "GLEW_VERSION_3_3"
         /\ pc' = "create_program"
         /\ UNCHANGED exception
    /\ UNCHANGED <<programs, gl, width, height>>
    /\ UNCHANGED setupFixed
    /\ UNCHANGED resources

CheckVersion ==
    /\ pc = "GLEW_VERSION_3_3"
    /\ \E ok \in BOOLEAN :
         IF ok THEN Proceed("create_program")
         ELSE Throw("GLEW_VERSION_3_3", "OpenGL 3.3 is not supported")
    /\ UNCHANGED <<programs, gl, width, height>>
    /\ UNCHANGED setupFixed
    /\ UNCHANGED resources

\* create_shader twice and create_program once, for the next program of main
BuildProgram ==
    /\ pc = "create_program"
    /\ \E outcome \in {"ok", "compile", "link"} :
         CASE outcome = "ok" ->
                /\ programs' = Append(programs, ProgramOrder[Len(programs) + 1])
                /\ Proceed(IF Len(programs) + 1 = Len(ProgramOrder)
                           THEN "scene" ELSE "create_program")
           [] outcome = "compile" ->
                /\ Throw("create_shader", "Shader compilation failed: ")
                /\ UNCHANGED programs
           [] outcome = "link" ->
                /\ Throw("create_program", "Program linkage failed: ")
                /\ UNCHANGED programs
    /\ UNCHANGED <<gl, width, height>>
    /\ UNCHANGED setupFixed
    /\ UNCHANGED resources

\* vertex arrays, the floor texture on unit 0, the environment cube map on unit 1
SetupScene ==
    /\ pc = "scene"
    /\ LET g1 == glUseProgram(gl, "floor_program")
           g2 == glActiveTexture(g1, 0)
           g3 == glBindTexture(g2, "2D", "tex")
           g4 == glActiveTexture(g3, 1)
           g5 == glBindTexture(g4, "CUBE", "env_tex")
       IN gl' = g5
    /\ Proceed("caustics_fbo")
    /\ UNCHANGED <<programs, width, height>>
    /\ UNCHANGED setupFixed
    /\ UNCHANGED resources

\* the caustic texture on unit 2 and the framebuffer it is attached to; an
\* incomplete framebuffer is reported on std::cout and main goes on
SetupCausticsFbo ==
    /\ pc = "caustics_fbo"
    /\ \E complete \in BOOLEAN :
         LET g1 == glActiveTexture(gl, 2)
             g2 == glBindTexture(g1, "2D", "caustics_tex")
             g3 == [g2 EXCEPT !.causticsData = {<<"undefined", 0>>}]
             g4 == glBindFramebuffer(g3, "caustics_fbo")
             g5 == [g4 EXCEPT !.fboColor = "caustics_tex", !.fboComplete = complete]
         IN /\ gl' = g5
            /\ out' = IF complete THEN out
                      ELSE Append(out, <<"cout", "Incomplete buffer">>)
    /\ Proceed("while")
    /\ UNCHANGED <<programs, width, height>>
    /\ UNCHANGED <<running, paused, time, dt, button_down, camera_position, camera_front,
                   camera_rotation, view_angle, polled, frame, frameLog, exitStatus, shade,
                   accum, window, gl_context, clock>>

\* catch (std::exception const & e): print e.what(), return EXIT_FAILURE
Catch ==
    /\ pc = "catch"
    /\ out' = Append(out, <<"cerr", exception>>)
    /\ exitStatus' = EXIT_FAILURE
    /\ pc' = "exit"
    /\ UNCHANGED <<programs, gl, width, height, running, paused, time, dt, button_down,
                   camera_position, camera_front, camera_rotation, view_angle, polled,
                   frame, frameLog, failure, exception, shade, accum, window,
                   gl_context, clock>>

(***************************************************************************)
(* The frame loop (src/main.cpp 622-807) and the shutdown (809-811).       *)
(***************************************************************************)
\* camera_front = base_camera_front * mat3(rotate(rotate(1, view_angle, X),
\* camera_rotation, Y)) with base_camera_front = (0, 0, -1), that is
\* (cos(va) sin(cr), -sin(va), -cos(va) cos(cr)); the angles are quarter turns
Sin4(q) == CASE q % 4 = 0 -> 0 [] q % 4 = 1 -> 1 [] q % 4 = 2 -> 0 [] q % 4 = 3 -> -1

Cos4(q) == Sin4(q + 1)

CameraFront(va, cr) == <<Cos4(va) * Sin4(cr), -Sin4(va), -Cos4(va) * Cos4(cr)>>

\* glm::normalize(glm::cross(camera_front, camera_up)) with camera_up = (0, 1, 0);
\* for a vertical camera_front the cross product is zero and has no direction,
\* which the model keeps as the zero vector
CameraRight(front) == <<-front[3], 0, front[1]>>

Scaled(k, v) == <<k * v[1], k * v[2], k * v[3]>>

Plus(a, b) == <<a[1] + b[1], a[2] + b[2], a[3] + b[3]>>

Held(k, v) == IF button_down[k] THEN v ELSE <<0, 0, 0>>

\* MoveCamera moving forward whether or not a key is held
MoveCameraAlways(pos, front, d) == Plus(pos, Scaled(d, front))

\* camera_position after the six movement keys, each moving by 6 * dt
MoveCamera(pos, front, d) ==
    LET up == <<0, 1, 0>>
        p1 == Plus(pos, Held("w", Scaled(d, front)))
        p2 == Plus(p1, Held("s", Scaled(-d, front)))
        p3 == Plus(p2, Held("a", Scaled(-d, CameraRight(front))))
        p4 == Plus(p3, Held("d", Scaled(d, CameraRight(front))))
        p5 == Plus(p4, Held("LCTRL", Scaled(-d, up)))
        p6 == Plus(p5, Held("SPACE", Scaled(d, up)))
    IN p6

Turn(angle, less, more, d) ==
    angle - (IF button_down[less] THEN d ELSE 0) + (IF button_down[more] THEN d ELSE 0)

loopInput == <<width, height, running, paused, button_down>>
clockAndCamera == <<time, dt, camera_position, camera_front, camera_rotation, view_angle>>
process == <<programs, failure, exception, out, exitStatus, shade, accum, window,
             gl_context, clock>>

\* while (running)
WhileTest ==
    /\ pc = "while"
    /\ pc' = IF running THEN "poll" ELSE "shutdown"
    /\ frameLog' = <<>>
    /\ polled' = 0
    /\ UNCHANGED <<gl, frame>>
    /\ UNCHANGED loopInput
    /\ UNCHANGED clockAndCamera
    /\ UNCHANGED process

\* SDL_PollEvent delivers SDL_QUIT
EventQuit ==
    /\ pc = "poll" /\ polled < MaxEvents
    /\ running' = FALSE
    /\ polled' = polled + 1
    /\ UNCHANGED <<pc, gl, frame, frameLog, width, height, paused, button_down>>
    /\ UNCHANGED clockAndCamera
    /\ UNCHANGED process

\* SDL_PollEvent delivers SDL_WINDOWEVENT_RESIZED
EventResize ==
    /\ pc = "poll" /\ polled < MaxEvents
    /\ \E size \in Sizes :
         /\ width' = size[1]
         /\ height' = size[2]
         /\ gl' = glViewport(gl, size[1], size[2])
    /\ polled' = polled + 1
    /\ UNCHANGED <<pc, frame, frameLog, running, paused, button_down>>
    /\ UNCHANGED clockAndCamera
    /\ UNCHANGED process

\* SDL_PollEvent delivers SDL_KEYDOWN
EventKeyDown ==
    /\ pc = "poll" /\ polled < MaxEvents
    /\ \E k \in Keys :
         /\ button_down' = [button_down EXCEPT ![k] = TRUE]
         /\ paused' = IF k = "p" THEN ~paused ELSE paused
    /\ polled' = polled + 1
    /\ UNCHANGED <<pc, gl, frame, frameLog, width, height, running>>
    /\ UNCHANGED clockAndCamera
    /\ UNCHANGED process

\* SDL_PollEvent delivers SDL_KEYUP
EventKeyUp ==
    /\ pc = "poll" /\ polled < MaxEvents
    /\ \E k \in Keys : button_down' = [button_down EXCEPT ![k] = FALSE]
    /\ polled' = polled + 1
    /\ UNCHANGED <<pc, gl, frame, frameLog, width, height, running, paused>>
    /\ UNCHANGED clockAndCamera
    /\ UNCHANGED process

\* PollDone without if (!running) break;
PollDoneNoBreak ==
    /\ pc = "poll"
    /\ frame < MaxFrames
    /\ pc' = "advance"
    /\ UNCHANGED <<gl, frame, frameLog, polled>>
    /\ UNCHANGED loopInput
    /\ UNCHANGED clockAndCamera
    /\ UNCHANGED process

\* the event queue is empty: if (!running) break;
PollDone ==
    /\ pc = "poll"
    /\ running => frame < MaxFrames
    /\ pc' = IF running THEN "advance" ELSE "shutdown"
    /\ UNCHANGED <<gl, frame, frameLog, polled>>
    /\ UNCHANGED loopInput
    /\ UNCHANGED clockAndCamera
    /\ UNCHANGED process

\* AdvanceTime without the test of the pause flag
AdvanceTimeIgnoringPause(t, d) == t + d

\* dt, time, the camera and the matrices of the iteration (651-699)
AdvanceTime(t, d) == IF ~paused THEN t + d ELSE t

Advance ==
    /\ pc = "advance"
    /\ \E d \in 0..MaxDt :
         /\ dt' = d
         /\ time' = AdvanceTime(time, d)
         /\ camera_position' = MoveCamera(camera_position, camera_front, d)
         /\ camera_rotation' = Turn(camera_rotation, "LEFT", "RIGHT", d)
         /\ view_angle' = Turn(view_angle, "UP", "DOWN", d)
    /\ camera_front' = CameraFront(view_angle', camera_rotation')
    /\ pc' = "caustics"
    /\ UNCHANGED <<gl, frame, frameLog, polled>>
    /\ UNCHANGED loopInput
    /\ UNCHANGED process

\* the GL calls of the caustics pass before its draw call (703-719)
CausticsCalls(g, t) ==
    LET g1 == glUseProgram(g, "caustics_program")
        g2 == glBindFramebuffer(g1, "caustics_fbo")
        g3 == glClearColor(g2, <<0, 0, 0, 0>>)
        g4 == glClear(g3)
        g5 == glViewport(g4, caustics_resolution, caustics_resolution)
        g6 == glEnable(g5, "GL_BLEND")
        g7 == glBlendFunc(g6, "GL_SRC_ALPHA", "GL_ONE")
        g8 == glUniform(g7, "caustics_program", "time", t)
    IN g8

\* EnvironmentCalls without the rebinding of the window's framebuffer
EnvironmentCallsNoRebind(g, w, h) ==
    LET g1 == glUseProgram(g, "env_program")
        g3 == glClearColor(g1, <<800, 800, 1000, 0>>)
        g4 == glViewport(g3, w, h)
        g5 == glClear(g4)
        g6 == glEnable(g5, "GL_CULL_FACE")
        g7 == glDisable(g6, "GL_DEPTH_TEST")
        g8 == glDisable(g7, "GL_BLEND")
        g9 == glUniform(g8, "env_program", "tex", 1)
        g10 == glActiveTexture(g9, 1)
        g11 == glBindTexture(g10, "CUBE", "env_tex")
    IN g11

\* EnvironmentCalls without the clear of the window's framebuffer
EnvironmentCallsNoClear(g, w, h) ==
    LET g1 == glUseProgram(g, "env_program")
        g2 == glBindFramebuffer(g1, "default")
        g3 == glClearColor(g2, <<800, 800, 1000, 0>>)
        g4 == glViewport(g3, w, h)
        g6 == glEnable(g4, "GL_CULL_FACE")
        g7 == glDisable(g6, "GL_DEPTH_TEST")
        g8 == glDisable(g7, "GL_BLEND")
        g9 == glUniform(g8, "env_program", "tex", 1)
        g10 == glActiveTexture(g9, 1)
        g11 == glBindTexture(g10, "CUBE", "env_tex")
    IN g11

\* EnvironmentCalls without glDisable(GL_BLEND)
EnvironmentCallsKeepBlend(g, w, h) ==
    LET g1 == glUseProgram(g, "env_program")
        g2 == glBindFramebuffer(g1, "default")
        g3 == glClearColor(g2, <<800, 800, 1000, 0>>)
        g4 == glViewport(g3, w, h)
        g5 == glClear(g4)
        g6 == glEnable(g5, "GL_CULL_FACE")
        g7 == glDisable(g6, "GL_DEPTH_TEST")
        g9 == glUniform(g7, "env_program", "tex", 1)
        g10 == glActiveTexture(g9, 1)
        g11 == glBindTexture(g10, "CUBE", "env_tex")
    IN g11

\* the GL calls of the environment pass before its draw call (724-746); the
\* clear colour is (0.8, 0.8, 1, 0), in thousandths
EnvironmentCalls(g, w, h) ==
    LET g1 == glUseProgram(g, "env_program")
        g2 == glBindFramebuffer(g1, "default")
        g3 == glClearColor(g2, <<800, 800, 1000, 0>>)
        g4 == glViewport(g3, w, h)
        g5 == glClear(g4)
        g6 == glEnable(g5, "GL_CULL_FACE")
        g7 == glDisable(g6, "GL_DEPTH_TEST")
        g8 == glDisable(g7, "GL_BLEND")
        g9 == glUniform(g8, "env_program", "tex", 1)
        g10 == glActiveTexture(g9, 1)
        g11 == glBindTexture(g10, "CUBE", "env_tex")
    IN g11

\* FloorCalls with the caustic sampler written through the location of the
\* water program
FloorCallsWrongProgram(g, w, h) ==
    LET g1 == glUseProgram(g, "floor_program")
        g2 == glEnable(g1, "GL_DEPTH_TEST")
        g2p == glUniform(g2, "floor_program", "projection", perspective(w, h))
        g3 == glUniform(g2p, "floor_program", "tex", 0)
        g4 == glUniform(g3, "water_program", "caustics_tex", 2)
        g5 == glActiveTexture(g4, 0)
        g6 == glBindTexture(g5, "2D", "tex")
        g7 == glActiveTexture(g6, 2)
        g8 == glBindTexture(g7, "2D", "caustics_tex")
    IN g8

\* the GL calls of the floor pass before its draw call (751-771)
FloorCalls(g, w, h) ==
    LET g1 == glUseProgram(g, "floor_program")
        g2 == glEnable(g1, "GL_DEPTH_TEST")
        g2p == glUniform(g2, "floor_program", "projection", perspective(w, h))
        g3 == glUniform(g2p, "floor_program", "tex", 0)
        g4 == glUniform(g3, "floor_program", "caustics_tex", 2)
        g5 == glActiveTexture(g4, 0)
        g6 == glBindTexture(g5, "2D", "tex")
        g7 == glActiveTexture(g6, 2)
        g8 == glBindTexture(g7, "2D", "caustics_tex")
    IN g8

\* WaterCalls without the upload of the time uniform
WaterCallsStaleTime(g, t, w, h) ==
    LET g1 == glUseProgram(g, "water_program")
        g2 == glEnable(g1, "GL_DEPTH_TEST")
        g2p == glUniform(g2, "water_program", "projection", perspective(w, h))
        g4 == glUniform(g2p, "water_program", "tex", 1)
        g5 == glUniform(g4, "water_program", "floor_tex", 0)
        g6 == glUniform(g5, "water_program", "caustics_tex", 2)
    IN g6

\* the GL calls of the water pass before its draw call (776-802)
WaterCalls(g, t, w, h) ==
    LET g1 == glUseProgram(g, "water_program")
        g2 == glEnable(g1, "GL_DEPTH_TEST")
        g2p == glUniform(g2, "water_program", "projection", perspective(w, h))
        g3 == glUniform(g2p, "water_program", "time", t)
        g4 == glUniform(g3, "water_program", "tex", 1)
        g5 == glUniform(g4, "water_program", "floor_tex", 0)
        g6 == glUniform(g5, "water_program", "caustics_tex", 2)
        g7 == glUniform(g6, "water_program", "floor_width", floor_width)
        g8 == glUniform(g7, "water_program", "floor_height", floor_height)
        g9 == glActiveTexture(g8, 0)
        g10 == glBindTexture(g9, "2D", "tex")
        g11 == glActiveTexture(g10, 1)
        g12 == glBindTexture(g11, "CUBE", "env_tex")
        g13 == glActiveTexture(g12, 2)
        g14 == glBindTexture(g13, "2D", "caustics_tex")
    IN g14

\* a pass: its GL calls, then its draw call, logged with the state it is issued in
Pass(name, g, next) ==
    /\ gl' = glDrawArrays(g, name, frame)
    /\ frameLog' = Append(frameLog, LogEntry(g, name, frame, time))
    /\ pc' = next
    /\ UNCHANGED <<frame, polled>>
    /\ UNCHANGED loopInput
    /\ UNCHANGED clockAndCamera
    /\ UNCHANGED process

CausticsPass ==
    /\ pc = "caustics"
    /\ Pass("CAUSTICS_PASS", CausticsCalls(gl, time), "environment")

EnvironmentPass ==
    /\ pc = "environment"
    /\ Pass("BACKDROP_PASS", EnvironmentCalls(gl, width, height), "floor")

\* FloorPass going on to the swap, the water pass left out
FloorPassThenSwap ==
    /\ pc = "floor"
    /\ Pass("FLOOR_PASS", FloorCalls(gl, width, height), "swap")

FloorPass ==
    /\ pc = "floor"
    /\ Pass("FLOOR_PASS", FloorCalls(gl, width, height), "water")

WaterPass ==
    /\ pc = "water"
    /\ Pass("WATER_PASS", WaterCalls(gl, time, width, height), "swap")

\* SDL_GL_SwapWindow(window)
SwapWindow ==
    /\ pc = "swap"
    /\ frameLog' = Append(frameLog, LogEntry(gl, "PRESENT", frame, time))
    /\ frame' = frame + 1
    /\ pc' = "while"
    /\ UNCHANGED <<gl, polled>>
    /\ UNCHANGED loopInput
    /\ UNCHANGED clockAndCamera
    /\ UNCHANGED process

\* SDL_GL_DeleteContext, SDL_DestroyWindow, and main returns
Shutdown ==
    /\ pc = "shutdown"
    /\ gl_context' = "destroyed"
    /\ window' = "destroyed"
    /\ exitStatus' = EXIT_SUCCESS
    /\ pc' = "exit"
    /\ UNCHANGED <<programs, gl, frame, frameLog, polled, failure, exception, out, shade,
                   accum, clock>>
    /\ UNCHANGED loopInput
    /\ UNCHANGED clockAndCamera

Next ==
    \/ SdlInit \/ CreateWindow \/ CreateContext \/ GlewInit \/ CheckVersion
    \/ BuildProgram \/ SetupScene \/ SetupCausticsFbo \/ Catch
    \/ WhileTest \/ EventQuit \/ EventResize \/ EventKeyDown \/ EventKeyUp \/ PollDone
    \/ Advance \/ CausticsPass \/ EnvironmentPass \/ FloorPass \/ WaterPass
    \/ SwapWindow \/ Shutdown

Spec == Init /\ [][Next]_vars

(***************************************************************************)
(* Properties of the frame loop.                                           *)
(***************************************************************************)
PassOrder == <<"CAUSTICS_PASS", "BACKDROP_PASS", "FLOOR_PASS", "WATER_PASS", "PRESENT">>

LoopPcs == {"while", "poll", "advance", "caustics", "environment", "floor", "water", "swap"}

PassNames == [i \in 1..Len(frameLog) |-> frameLog[i].pass]

Entries == {frameLog[i] : i \in 1..Len(frameLog)}

\* how many passes of the iteration are behind main at position p
PassesDone(p) ==
    CASE p \in {"poll", "advance", "caustics"} -> 0
      [] p = "environment" -> 1
      [] p = "floor" -> 2
      [] p = "water" -> 3
      [] p = "swap" -> 4
      [] p = "while" -> IF frame = 0 THEN 0 ELSE 5
      [] OTHER -> Len(frameLog)

\* C1: at every position of the frame loop the passes executed in the current
\* iteration are exactly the passes that precede the position in the order
\* CAUSTICS_PASS, BACKDROP_PASS, FLOOR_PASS, WATER_PASS, PRESENT, each once and all
\* in that iteration; after the swap the iteration has run all five, and the next
\* iteration starts again with none executed and CAUSTICS_PASS first.
C1_PassOrder ==
    pc \in LoopPcs =>
        /\ PassNames = SubSeq(PassOrder, 1, PassesDone(pc))
        /\ \A e \in Entries : e.frame = IF pc = "while" THEN frame - 1 ELSE frame

C1_Witness ==
    /\ pc = "while" /\ frame = 2 /\ running
    /\ PassNames = PassOrder

\* C2: every draw call of BACKDROP_PASS, FLOOR_PASS and WATER_PASS has the window's
\* framebuffer as its draw framebuffer, and no draw call samples the caustic texture
\* while the caustic framebuffer is the draw framebuffer.
C2_CausticTargetOnlyInCausticsPass ==
    \A e \in Entries :
        /\ e.pass \in {"BACKDROP_PASS", "FLOOR_PASS", "WATER_PASS"} => e.drawFbo = "default"
        /\ ~(e.drawFbo = "caustics_fbo" /\ "caustics_tex" \in e.sampled)

C2_Witness ==
    /\ pc = "swap" /\ frame >= 1
    /\ frameLog[1].drawFbo = "caustics_fbo"
    /\ "caustics_tex" \in frameLog[3].sampled /\ frameLog[3].drawFbo = "default"
    /\ "caustics_tex" \in frameLog[4].sampled /\ frameLog[4].drawFbo = "default"

\* C3: when FLOOR_PASS starts, the caustic buffer holds only what the CAUSTICS_PASS
\* of the same iteration drew into a buffer cleared to zero: nothing of an earlier
\* iteration and nothing else.
C3_BufferHoldsOnlyThisFrame ==
    pc = "floor" => gl.causticsData \subseteq {<<"frame", frame>>}

\* C4: in every iteration the time uniform of the caustic program at the
\* CAUSTICS_PASS draw call and the time uniform of the water program at the
\* WATER_PASS draw call both equal time, and time keeps the value it had at the
\* first pass until the swap.
C4_SameTimeInAllPasses ==
    \A e \in Entries :
        /\ e.t = time
        /\ e.pass \in {"CAUSTICS_PASS", "WATER_PASS"} => e.uTime = e.t

C4_Witness ==
    /\ pc = "swap" /\ frame >= 1 /\ time >= 2
    /\ frameLog[1].uTime = time /\ frameLog[4].uTime = time

\* C5: time never decreases; it changes only in the time advance of an iteration,
\* before any pass of that iteration, by dt >= 0, and only if the pause flag is
\* not set; an iteration with the pause flag set leaves it unchanged.
C5_TimeAdvance ==
    [][ /\ time' >= time
        /\ time' # time => /\ pc = "advance" /\ pc' = "caustics"
                           /\ frameLog = <<>>
                           /\ ~paused
                           /\ dt' >= 0 /\ time' = time + dt'
        /\ (pc = "advance" /\ paused) => time' = time ]_vars

C5_Witness ==
    /\ pc = "caustics" /\ paused /\ dt > 0 /\ time > 0 /\ frame >= 1

\* C6: every CAUSTICS_PASS draw call is issued with the caustic framebuffer as draw
\* framebuffer, GL_DEPTH_TEST disabled and blending enabled with destination
\* factor GL_ONE.
C6_CausticsDrawState ==
    \A e \in Entries :
        e.pass = "CAUSTICS_PASS" =>
            /\ e.drawFbo = "caustics_fbo"
            /\ ~e.depthTest
            /\ e.blend /\ e.blendFunc[2] = "GL_ONE"

\* C7: the frame loop is never entered with an incomplete caustic framebuffer.
C7_NoLoopWithIncompleteFbo ==
    pc \in LoopPcs => gl.fboComplete

\* C8: after a start-up failure (SDL_Init, SDL_CreateWindow, SDL_GL_CreateContext,
\* glewInit, the OpenGL 3.3 test, create_shader, create_program) main is in its
\* handler or has returned, the message of the error is what it prints to
\* std::cerr, it returns EXIT_FAILURE, and no pass and no swap has been executed.
C8_SetupFailureIsFatal ==
    failure # "none" =>
        /\ pc \in {"catch", "exit"}
        /\ exception \notin {"none", ""}
        /\ frame = 0 /\ frameLog = <<>> /\ gl.screen = <<>>
        /\ pc = "exit" => /\ exitStatus = EXIT_FAILURE
                          /\ out = <<<<"cerr", exception>>>>

C8_Witness ==
    /\ failure = "create_program" /\ Len(programs) = 3
    /\ pc = "exit" /\ exitStatus = EXIT_FAILURE

(***************************************************************************)
(* The shaders' arithmetic.  A GLSL float is a fixed-point number with     *)
(* three decimals: the integer a stands for a / Unit.  Undef is the result *)
(* GLSL leaves undefined (square root of a negative number, division by    *)
(* zero, pow of a negative base) and everything computed from it.          *)
(***************************************************************************)
Unit == 10^3

Undef == -(10^9)

Defined(a) == a # Undef

\* n / d rounded to the nearest integer, d > 0
Round(n, d) == IF n >= 0 THEN (n + d \div 2) \div d ELSE -((-n + d \div 2) \div d)

FAdd(a, b) == IF Defined(a) /\ Defined(b) THEN a + b ELSE Undef

FSub(a, b) == IF Defined(a) /\ Defined(b) THEN a - b ELSE Undef

FMul(a, b) == IF Defined(a) /\ Defined(b) THEN Round(a * b, Unit) ELSE Undef

FDiv(a, b) ==
    IF ~(Defined(a) /\ Defined(b)) \/ b = 0 THEN Undef
    ELSE IF b > 0 THEN Round(a * Unit, b) ELSE Round(-a * Unit, -b)

RECURSIVE IsqrtBetween(_, _, _)
\* the largest r in lo..hi with r * r <= n, given lo * lo <= n
IsqrtBetween(n, lo, hi) ==
    IF lo >= hi THEN lo
    ELSE LET mid == (lo + hi + 1) \div 2
         IN IF mid * mid <= n THEN IsqrtBetween(n, mid, hi)
            ELSE IsqrtBetween(n, lo, mid - 1)

Isqrt(n) == IsqrtBetween(n, 0, 2^15)

FSqrt(a) == IF ~Defined(a) \/ a < 0 THEN Undef ELSE Isqrt(a * Unit)

\* pow(a, 5)
FPow5(a) ==
    IF ~Defined(a) \/ a < 0 THEN Undef
    ELSE FMul(FMul(FMul(FMul(a, a), a), a), a)

Dot(a, b) == FAdd(FAdd(FMul(a[1], b[1]), FMul(a[2], b[2])), FMul(a[3], b[3]))

VSub(a, b) == <<FSub(a[1], b[1]), FSub(a[2], b[2]), FSub(a[3], b[3])>>

VAdd(a, b) == <<FAdd(a[1], b[1]), FAdd(a[2], b[2]), FAdd(a[3], b[3])>>

Abs(a) == IF a < 0 THEN -a ELSE a

Max(a, b) == IF a >= b THEN a ELSE b

\* the largest magnitude among the components of v, all of them defined
MaxAbs(v) == Max(Max(Abs(v[1]), Abs(v[2])), Abs(v[3]))

\* v / k, k a positive integer
Shrink(v, k) == <<Round(v[1], k), Round(v[2], k), Round(v[3], k)>>

\* v / len
DivideBy(v, len) == <<FDiv(v[1], len), FDiv(v[2], len), FDiv(v[3], len)>>

\* normalize(v) of a vector whose components are below 2^15
NormalizeShort(v) == DivideBy(v, FSqrt(Dot(v, v)))

\* normalize(v); a long vector is scaled down first, as the exponent of a float
\* does, which leaves its direction unchanged
Normalize(v) ==
    IF ~(Defined(v[1]) /\ Defined(v[2]) /\ Defined(v[3])) THEN <<Undef, Undef, Undef>>
    ELSE NormalizeShort(Shrink(v, 1 + MaxAbs(v) \div 2^14))

\* the positions of main inside an iteration that passed if (!running) break;
FramePcs == {"advance", "caustics", "environment", "floor", "water", "swap"}

\* the position of main after the statement at position p of an iteration
AfterStep(p) ==
    CASE p = "advance" -> "caustics"
      [] p = "caustics" -> "environment"
      [] p = "environment" -> "floor"
      [] p = "floor" -> "water"
      [] p = "water" -> "swap"
      [] p = "swap" -> "while"

\* a step inside an iteration is the iteration's next statement, and the last one is
\* the swap that completes the frame
RunsOn ==
    /\ pc' = AfterStep(pc)
    /\ running'
    /\ pc = "swap" =>
           (frame' = frame + 1 /\ Len(frameLog') = Len(PassOrder)
            /\ frameLog'[Len(frameLog')].pass = "PRESENT")

\* C15: once SDL_QUIT was polled main is in the event loop, at the shutdown or has
\* returned, and the iteration has made no draw call and no swap; main leaves the
\* loop only then, destroys the context and the window and returns EXIT_SUCCESS;
\* an iteration that passed the event loop did so without SDL_QUIT, every step
\* it takes is its next statement, and the step from the last position is the
\* swap: main leaves an iteration it started only through PRESENT.
C15_QuitEndsLoop ==
    /\ [](~running => (pc \in {"poll", "shutdown", "exit"} /\ frameLog = <<>>))
    /\ [](pc = "shutdown" => ~running)
    /\ []((pc = "exit" /\ failure = "none") =>
              /\ ~running
              /\ gl_context = "destroyed" /\ window = "destroyed"
              /\ exitStatus = EXIT_SUCCESS)
    /\ [](pc \in FramePcs => running)
    /\ [][(pc \in FramePcs) => RunsOn]_vars
    /\ [][(running /\ ~running') => EventQuit]_vars

\* main has returned after SDL_QUIT arrived in the event loop of the second iteration
C15_Witness ==
    /\ pc = "exit" /\ ~running /\ frame = 1
    /\ exitStatus = EXIT_SUCCESS /\ window = "destroyed"
    /\ polled > 0

(***************************************************************************)
(* The optical routines of the water fragment shader (191-268) and of the  *)
(* caustic shaders (270-341).                                              *)
(***************************************************************************)
n1 == 1000              \* float n1 = 1.0
n2 == 1333              \* float n2 = 1.333
n2_caustic_vertex == 1330   \* the 1.33 passed to get_refract by the caustic vertex shader

\* glm::normalize(glm::vec3(0.9, 1.f, -0.2))
light_direction == Normalize(<<900, 1000, -200>>)

\* SchlickWater with the factor (1 - coef) left out of the second term
SchlickNoComplement(cosine) ==
    LET coef0 == FDiv(FSub(n1, n2), FAdd(n1, n2))
        coef1 == FMul(coef0, coef0)
    IN FAdd(coef1, FPow5(FSub(Unit, cosine)))

\* coef of the water fragment shader (256-261)
SchlickWater(cosine) ==
    LET coef0 == FDiv(FSub(n1, n2), FAdd(n1, n2))
        coef1 == FMul(coef0, coef0)
    IN FAdd(coef1, FMul(FSub(Unit, coef1), FPow5(FSub(Unit, cosine))))

\* SchlickCaustic with the falloff term not weighted by (1 - coef)
SchlickCausticUnweighted(cosine) ==
    LET coef0 == FDiv(FSub(n1, n2), FAdd(n1, n2))
        coef1 == FMul(coef0, coef0)
    IN FAdd(coef1, FPow5(FSub(Unit, cosine)))

\* coef of the caustic fragment shader (332-337)
SchlickCaustic(cosine) ==
    LET coef0 == FDiv(FSub(n1, n2), FAdd(n1, n2))
        coef1 == FMul(coef0, coef0)
    IN FAdd(coef1, FMul(FSub(Unit, coef1), FPow5(FSub(Unit, cosine))))

\* the weights of the two colours the water fragment shader adds (262-263)
WaterReflectWeight(coef) == coef

WaterTransmitWeight(coef) == FSub(Unit, coef)

\* out_color.w of the caustic fragment shader (339)
CausticTransmitWeight(coef) == FSub(Unit, coef)

\* refract_cosine of get_refract (235-238, 294-297), the divisor of the bend
RefractCosine(direction, r1, r2, normal) ==
    LET cosine == Dot(Normalize(normal), direction)
        sine == FSqrt(FSub(Unit, FMul(cosine, cosine)))
        refract_sine == FDiv(FMul(r1, sine), r2)
    IN FSqrt(FSub(Unit, FMul(refract_sine, refract_sine)))

\* get_refract of the water fragment shader up to refracted_position (234-245);
\* normal and position are the shader's inputs of those names
GetRefractWater(direction, r1, r2, normal, position) ==
    LET cosine == Dot(Normalize(normal), direction)
        sine == FSqrt(FSub(Unit, FMul(cosine, cosine)))
        refract_sine == FDiv(FMul(r1, sine), r2)
        refract_cosine == FSqrt(FSub(Unit, FMul(refract_sine, refract_sine)))
        h == position[2]
        straight_floor_x == FAdd(FDiv(FMul(-direction[1], h), direction[2]), position[1])
        straight_floor_z == FAdd(FDiv(FMul(-direction[3], h), direction[2]), position[3])
        projection_position == <<position[1], 0, position[2]>>
        straight_projection == VSub(<<straight_floor_x, 0, straight_floor_z>>,
                                    projection_position)
        bend(c) == FDiv(FMul(FDiv(FMul(c, r1), r2), cosine), refract_cosine)
        refracted_projection == <<bend(straight_projection[1]),
                                  bend(straight_projection[2]),
                                  bend(straight_projection[3])>>
    IN VAdd(projection_position, refracted_projection)

\* get_refract of the caustic vertex shader (293-306)
GetRefractCaustic(direction, r1, r2, normal, position) ==
    LET cosine == Dot(Normalize(normal), direction)
        sine == FSqrt(FSub(Unit, FMul(cosine, cosine)))
        refract_sine == FDiv(FMul(r1, sine), r2)
        refract_cosine == FSqrt(FSub(Unit, FMul(refract_sine, refract_sine)))
        h == position[2]
        straight_floor_x == FAdd(FDiv(FMul(-direction[1], h), direction[2]), position[1])
        straight_floor_z == FAdd(FDiv(FMul(-direction[3], h), direction[2]), position[3])
        projection_position == <<position[1], 0, position[2]>>
        straight_projection == VSub(<<straight_floor_x, 0, straight_floor_z>>,
                                    projection_position)
        bend(c) == FDiv(FMul(FDiv(FMul(c, r1), r2), cosine), refract_cosine)
        refracted_projection == <<bend(straight_projection[1]),
                                  bend(straight_projection[2]),
                                  bend(straight_projection[3])>>
    IN VAdd(projection_position, refracted_projection)

\* cosine of the water fragment shader main (258)
WaterCosine(normal, sun_direction, view_direction) ==
    Dot(Normalize(normal), sun_direction)

\* cosine of the caustic fragment shader main (334)
CausticCosine(normal, sun_direction) == Dot(Normalize(normal), sun_direction)

\* reflect of the water fragment shader (219-222)
Reflect(normal, direction) ==
    LET cosine == Dot(normal, direction)
    IN <<FSub(FMul(FMul(2 * Unit, normal[1]), cosine), direction[1]),
         FSub(FMul(FMul(2 * Unit, normal[2]), cosine), direction[2]),
         FSub(FMul(FMul(2 * Unit, normal[3]), cosine), direction[3])>>

\* glm::vec3 sun_color (699)
sun_color == <<Unit, 900, 800>>

Min(a, b) == IF a <= b THEN a ELSE b

\* a fragment output written to a normalized fixed-point attachment is clamped
\* to [0, 1]
Clamp01(a) == Max(0, Min(Unit, a))

\* out_color of the caustic fragment shader (339), as the blend stage receives it
CausticOutColor(sun_light, coef) ==
    <<Clamp01(sun_light[1]), Clamp01(sun_light[2]), Clamp01(sun_light[3]),
      Clamp01(CausticTransmitWeight(coef))>>

\* texcoord of the caustic vertex shader main (313-315)
CausticTexcoord(refracted) ==
    <<FDiv(refracted[1], floor_width * Unit), FDiv(refracted[3], floor_height * Unit)>>

\* gl_Position.xy of the caustic vertex shader main (316)
CausticClip(texcoord) ==
    <<FSub(FMul(texcoord[1], 2 * Unit), Unit), FSub(FMul(texcoord[2], 2 * Unit), Unit)>>

\* FloorCausticsTexcoord with the divisors of the floor texture
FloorCausticsTexcoordTiled(position) ==
    <<FDiv(position[1], 4 * Unit), FDiv(position[3], 4 * Unit)>>

\* caustics_texcoord of the floor fragment shader main (109)
FloorCausticsTexcoord(position) ==
    <<FDiv(position[1], floor_width * Unit), FDiv(position[3], floor_height * Unit)>>

\* the texture coordinate at which get_floor reads caustics_tex (225)
WaterCausticsTexcoord(pos) ==
    <<FDiv(pos[1], floor_width * Unit), FDiv(pos[3], floor_height * Unit)>>

\* the texel of a size x size attachment that the viewport transformation of
\* glViewport(0, 0, size, size) gives a fragment at clip position clip (w = 1)
TexelOfClip(clip, size) ==
    <<((clip[1] + Unit) * size) \div (2 * Unit), ((clip[2] + Unit) * size) \div (2 * Unit)>>

\* the texel of a size x size texture that holds texture coordinate texcoord
TexelOfTexcoord(texcoord, size) ==
    <<(texcoord[1] * size) \div Unit, (texcoord[2] * size) \div Unit>>

\* InsideFloor testing x alone
InsideFloorXOnly(p, w, h) ==
    /\ Defined(p[1])
    /\ p[1] > 0 /\ p[1] < w

\* the test of get_refract for a landing point on the floor (246)
InsideFloor(p, w, h) ==
    /\ Defined(p[1]) /\ Defined(p[3])
    /\ p[1] > 0 /\ p[3] > 0 /\ p[1] < w /\ p[3] < h

\* color of the water fragment shader main (262-264), one channel
WaterColor(coef, reflected, transmitted) ==
    FAdd(FMul(WaterReflectWeight(coef), reflected),
         FMul(WaterTransmitWeight(coef), transmitted))

(***************************************************************************)
(* Shader invocations.  The inputs are drawn from sets of values the draw  *)
(* calls of main can feed the shaders; sun_direction = (0, 1, 0) is the    *)
(* vertical light of the flat-water scenario, which main never sets.  Each *)
(* behaviour of SpecOptics evaluates one invocation.                       *)
(***************************************************************************)
\* points of the water surface: x in [0, 40], height in [4.2, 5.8], z in [0, 8]
SurfacePoints ==
    {<<0, 5000, 0>>, <<20000, 5000, 4000>>, <<20000, 5000, 5000>>,
     <<10000, 4200, 8000>>, <<30000, 5800, 2000>>}

\* vec3(-dhdx(), 1.0, -dhdy()) with |dhdx| <= 0.6 and |dhdy| <= 0.4
Normals ==
    {<<nx, 1000, nz>> : nx \in {-600, 0, 600}, nz \in {-400, 0, 400}}

\* camera positions: the initial one, and positions straight above surface points
CameraPositions ==
    {<<20000, 10000, 20000>>, <<20000, 10000, 4000>>, <<0, 12000, 0>>,
     <<30000, 8000, 6000>>, <<30000, 5800, 6000>>}

\* one channel of a texel of the environment map or of the lit floor
Texels == {200, 900}

SunDirections == {light_direction, <<0, Unit, 0>>}

\* the fragment input `normal` of the caustic fragment shader is written by no
\* vertex shader output: its value is undefined
UndefinedNormals ==
    Normals \cup {<<1000, 0, 0>>, <<0, -1000, 0>>, <<0, 0, 0>>, <<1000, 1000, 0>>}

\* main of the water fragment shader (253-267)
WaterFragment ==
    /\ shade.stage = "none"
    /\ \E position \in SurfacePoints, normal \in Normals,
          camera \in CameraPositions, sun_direction \in SunDirections,
          reflected \in Texels, transmitted \in Texels :
         LET view_direction == Normalize(VSub(camera, position))
             cosine == WaterCosine(normal, sun_direction, view_direction)
             coef == SchlickWater(cosine)
             refracted == GetRefractWater(view_direction, n1, n2, normal, position)
             onFloor == InsideFloor(refracted, floor_width * Unit, floor_height * Unit)
         IN shade' = [stage |-> "water_fs",
                      position |-> position,
                      normal |-> normal,
                      direction |-> view_direction,
                      sun_direction |-> sun_direction,
                      indices |-> <<n1, n2>>,
                      cosine |-> cosine,
                      reflect_weight |-> WaterReflectWeight(coef),
                      transmit_weight |-> WaterTransmitWeight(coef),
                      refracted_position |-> refracted,
                      refract_cosine |-> RefractCosine(view_direction, n1, n2, normal),
                      reflect_direction |-> Reflect(normal, view_direction),
                      branch |-> IF onFloor THEN "floor" ELSE "backdrop",
                      sample_at |-> IF onFloor THEN refracted
                                    ELSE Normalize(VSub(refracted, position)),
                      reflected_color |-> reflected,
                      transmitted_color |-> transmitted,
                      out_color |-> WaterColor(coef, reflected, transmitted)]
    /\ UNCHANGED <<mainVars, accum, clock>>

\* main of the caustic vertex shader (308-317), from the position and the normal
\* the wave field gives the vertex; floor_width and floor_height are the 40.0 and
\* 8.0 of the shader
CausticVertex ==
    /\ shade.stage = "none"
    /\ \E position \in SurfacePoints, normal \in Normals,
          sun_direction \in SunDirections :
         LET refracted == GetRefractCaustic(sun_direction, n1, n2_caustic_vertex,
                                            Normalize(normal), position)
             texcoord == CausticTexcoord(refracted)
         IN shade' = [stage |-> "caustic_vs",
                      position |-> position,
                      normal |-> normal,
                      direction |-> sun_direction,
                      indices |-> <<n1, n2_caustic_vertex>>,
                      refracted_position |-> refracted,
                      refract_cosine |-> RefractCosine(sun_direction, n1, n2_caustic_vertex,
                                                       Normalize(normal)),
                      texcoord |-> texcoord,
                      gl_Position |-> CausticClip(texcoord)]
    /\ UNCHANGED <<mainVars, accum, clock>>

\* main of the caustic fragment shader (330-340)
CausticFragment ==
    /\ shade.stage = "none"
    /\ \E normal \in UndefinedNormals, sun_direction \in SunDirections :
         LET cosine == CausticCosine(normal, sun_direction)
             coef == SchlickCaustic(cosine)
         IN shade' = [stage |-> "caustic_fs",
                      normal |-> normal,
                      sun_direction |-> sun_direction,
                      indices |-> <<n1, n2>>,
                      cosine |-> cosine,
                      reflect_weight |-> coef,
                      transmit_weight |-> CausticTransmitWeight(coef)]
    /\ UNCHANGED <<mainVars, accum, clock>>

\* the weights of either fragment shader for a given cosine (259-263, 335-339)
ShaderWeights ==
    /\ shade.stage = "none"
    /\ \E cosine \in (-Unit)..Unit, shader \in {"water", "caustic"} :
         LET coef == IF shader = "water" THEN SchlickWater(cosine)
                     ELSE SchlickCaustic(cosine)
         IN shade' = [stage |-> "weights",
                      shader |-> shader,
                      cosine |-> cosine,
                      reflect_weight |-> IF shader = "water" THEN WaterReflectWeight(coef)
                                         ELSE coef,
                      transmit_weight |-> IF shader = "water" THEN WaterTransmitWeight(coef)
                                          ELSE CausticTransmitWeight(coef)]
    /\ UNCHANGED <<mainVars, accum, clock>>

(***************************************************************************)
(* The wave field of the water vertex shader (168-180) and of the caustic  *)
(* vertex shader (279-291).  in_position.x, in_position.y and time are     *)
(* taken at multiples of pi / 6, where sin and cos are known.              *)
(***************************************************************************)
\* sin(k * pi / 6)
Sin12(k) == <<0, 500, 866, Unit, 866, 500, 0, -500, -866, -Unit, -866, -500>>[(k % 12) + 1]

\* cos(k * pi / 6)
Cos12(k) == Sin12(k + 3)

\* the multiples of pi / 6 in one period
Angles == 0..11

\* get_height of the water vertex shader (168-172)
WaterGetHeight(x, y, time_) ==
    LET base_height == 5 * Unit
        add == FMul(500, Sin12(x + time_)) + FMul(200, Cos12(y + 3 * time_))
               + FMul(100, Sin12(x + 2 * y + time_))
    IN base_height + add

\* dhdx of the water vertex shader (174-176)
WaterDhdx(x, y, time_) ==
    FMul(500, Cos12(x + time_)) + FMul(100, Cos12(x + 2 * y + time_))

\* WaterDhdy with the factor 2 of the inner derivative left out
WaterDhdyNoChain(x, y, time_) ==
    FMul(-200, Sin12(y + 3 * time_)) + FMul(100, Cos12(x + 2 * y + time_))

\* dhdy of the water vertex shader (178-180)
WaterDhdy(x, y, time_) ==
    FMul(-200, Sin12(y + 3 * time_)) + FMul(200, Cos12(x + 2 * y + time_))

\* get_height of the caustic vertex shader (279-283)
CausticGetHeight(x, y, time_) ==
    LET base_height == 5 * Unit
        add == FMul(500, Sin12(x + time_)) + FMul(200, Cos12(y + 3 * time_))
               + FMul(100, Sin12(x + 2 * y + time_))
    IN base_height + add

\* dhdx of the caustic vertex shader (285-287)
CausticDhdx(x, y, time_) ==
    FMul(500, Cos12(x + time_)) + FMul(100, Cos12(x + 2 * y + time_))

\* dhdy of the caustic vertex shader (289-291)
CausticDhdy(x, y, time_) ==
    FMul(-200, Sin12(y + 3 * time_)) + FMul(200, Cos12(x + 2 * y + time_))

\* normalize(vec3(-dhdx(), 1.0, -dhdy())) (187, 312)
WaveNormal(slope_x, slope_y) == Normalize(<<-slope_x, Unit, -slope_y>>)

\* the wave field of both vertex shaders at one vertex and time
WaveVertex ==
    /\ shade.stage = "none"
    /\ \E x \in Angles, y \in Angles, time_ \in Angles :
         shade' = [stage |-> "wave", x |-> x, y |-> y, time |-> time_,
                   water |-> [height |-> WaterGetHeight(x, y, time_),
                              dhdx |-> WaterDhdx(x, y, time_),
                              dhdy |-> WaterDhdy(x, y, time_),
                              normal |-> WaveNormal(WaterDhdx(x, y, time_),
                                                    WaterDhdy(x, y, time_))],
                   caustic |-> [height |-> CausticGetHeight(x, y, time_),
                                dhdx |-> CausticDhdx(x, y, time_),
                                dhdy |-> CausticDhdy(x, y, time_),
                                normal |-> WaveNormal(CausticDhdx(x, y, time_),
                                                      CausticDhdy(x, y, time_))]]
    /\ UNCHANGED <<mainVars, accum, clock>>

\* pi / 6 in world units
AngleStep == Round(3142, 6)

\* the times of the caustic samples of the model, in multiples of pi / 6
SampleTimes == {0, 1}

\* one caustic sample: a vertex of the water grid through the caustic vertex shader
\* (308-317) and a fragment of its triangle through the caustic fragment shader
\* (320-341).  The vertex shader's normal is a local variable; the fragment shader's
\* input `normal` has no matching output, so that its value is undefined.
CausticSample ==
    /\ shade.stage = "none"
    /\ \E x \in Angles, y \in Angles, time_ \in SampleTimes :
         LET position == <<x * AngleStep, CausticGetHeight(x, y, time_), y * AngleStep>>
             normal == WaveNormal(CausticDhdx(x, y, time_), CausticDhdy(x, y, time_))
             texcoord == CausticTexcoord(
                             GetRefractCaustic(light_direction, n1, n2_caustic_vertex,
                                               normal, position))
         IN \E fragment_normal \in UndefinedNormals \cup {normal} :
               shade' = [stage |-> "caustic_sample",
                         x |-> x, y |-> y, time |-> time_,
                         position |-> position,
                         vertex_normal |-> normal,
                         texcoord |-> texcoord,
                         gl_Position |-> CausticClip(texcoord),
                         normal |-> fragment_normal,
                         out_color |-> CausticOutColor(sun_color,
                                           SchlickCaustic(CausticCosine(fragment_normal,
                                                                        light_direction)))]
    /\ UNCHANGED <<mainVars, accum, clock>>

\* the points of the floor of the model: multiples of 1.25 and of 0.5
FloorPoints == {<<1250 * i, 0, 500 * j>> : i \in 0..32, j \in 0..16}

\* the texel of caustics_tex a sample landing on a point of the floor is written to
\* (313-316, 708) and the texels the floor fragment shader (109-110) and get_floor
\* of the water fragment shader (225) read for that point
CausticLookup ==
    /\ shade.stage = "none"
    /\ \E point \in FloorPoints :
         shade' = [stage |-> "caustic_lookup",
                   point |-> point,
                   gl_Position |-> CausticClip(CausticTexcoord(point)),
                   floor_texcoord |-> FloorCausticsTexcoord(point),
                   water_texcoord |-> WaterCausticsTexcoord(point),
                   written |-> TexelOfClip(CausticClip(CausticTexcoord(point)),
                                           caustics_resolution),
                   floor_reads |-> TexelOfTexcoord(FloorCausticsTexcoord(point),
                                                   caustics_resolution),
                   water_reads |-> TexelOfTexcoord(WaterCausticsTexcoord(point),
                                                   caustics_resolution)]
    /\ UNCHANGED <<mainVars, accum, clock>>

(***************************************************************************)
(* Floor shading: the floor fragment shader (69-117) and get_floor of the  *)
(* water fragment shader (224-232).  Colours are per channel, thousandths. *)
(***************************************************************************)
ambient_light == <<200, 200, 200>>

glossiness == 3 * Unit

roughness == 50

\* power of specular: 1 / (roughness * roughness) - 1
SpecularPower == (Unit \div roughness) * (Unit \div roughness) - 1

Square(a) == FMul(a, a)

\* pow(a, n) for a >= 0 and an integer n >= 0
RECURSIVE FPow(_, _)
FPow(a, n) ==
    IF n = 0 THEN Unit
    ELSE IF n % 2 = 0 THEN Square(FPow(a, n \div 2))
    ELSE FMul(a, FPow(a, n - 1))

\* diffuse of the floor fragment shader (89-91)
FloorDiffuse(normal, direction) == Max(0, Dot(normal, direction))

\* specular of the floor fragment shader (98-103)
FloorSpecular(normal, direction, camera, pos) ==
    FMul(glossiness,
         FPow(Max(0, Dot(Reflect(normal, direction), Normalize(VSub(camera, pos)))),
              SpecularPower))

\* diffuse of the water fragment shader (216-218)
WaterDiffuse(direction) == Max(0, Dot(<<0, Unit, 0>>, direction))

\* FloorAlbedo with the caustic colour multiplied into the texel
FloorAlbedoModulated(texel, caustics_data) ==
    <<FMul(texel[1], FMul(caustics_data[4], caustics_data[1])),
      FMul(texel[2], FMul(caustics_data[4], caustics_data[2])),
      FMul(texel[3], FMul(caustics_data[4], caustics_data[3]))>>

\* albedo = texel.xyz + caustics_data.w * caustics_data.xyz (109-110, 225-227)
FloorAlbedo(texel, caustics_data) ==
    <<FAdd(texel[1], FMul(caustics_data[4], caustics_data[1])),
      FAdd(texel[2], FMul(caustics_data[4], caustics_data[2])),
      FAdd(texel[3], FMul(caustics_data[4], caustics_data[3]))>>

\* one channel of albedo * ambient_light + albedo * sun_impact * sun_light
LitChannel(albedo, ambient, sun_impact, sun_light) ==
    FAdd(FMul(albedo, ambient), FMul(FMul(albedo, sun_impact), sun_light))

\* color of the floor fragment shader and of get_floor (112-115, 228-230)
Lit(albedo, sun_impact, sun_light) ==
    <<LitChannel(albedo[1], ambient_light[1], sun_impact, sun_light[1]),
      LitChannel(albedo[2], ambient_light[2], sun_impact, sun_light[2]),
      LitChannel(albedo[3], ambient_light[3], sun_impact, sun_light[3])>>

\* main of the floor fragment shader (107-117), out_color.rgb
FloorColor(texel, caustics_data, normal, pos, camera, sun_direction, sun_light) ==
    Lit(FloorAlbedo(texel, caustics_data),
        FAdd(FloorDiffuse(normal, sun_direction),
             FloorSpecular(normal, sun_direction, camera, pos)),
        sun_light)

\* get_floor of the water fragment shader (224-232)
GetFloor(texel, caustics_data, sun_direction, sun_light) ==
    Lit(FloorAlbedo(texel, caustics_data), WaterDiffuse(sun_direction), sun_light)

\* the normal of the floor's vertices (492)
floor_normal == <<0, Unit, 0>>

\* texels of the floor image
FloorTexels == {<<200, 200, 200>>, <<900, 600, 300>>}

\* texels of the caustic buffer: colour and alpha, each in [0, 1]
CausticsTexels ==
    {<<0, 0, 0, 0>>, <<Unit, 900, 800, 0>>, <<Unit, 900, 800, 600>>, <<400, 350, 300, Unit>>}

\* floor points the shading is computed at
ShadedPoints == {<<20000, 0, 4000>>, <<10000, 0, 6000>>}

\* one vertex and one fragment of the floor through the floor shaders (46-117);
\* model is the identity (686)
FloorFragment ==
    /\ shade.stage = "none"
    /\ \E in_position \in ShadedPoints, texel \in FloorTexels,
          caustics_data \in CausticsTexels, camera \in CameraPositions,
          sun_direction \in SunDirections :
         shade' = [stage |-> "floor_fs",
                   in_position |-> in_position,
                   position |-> in_position,
                   normal |-> floor_normal,
                   texel |-> texel,
                   caustics_texcoord |-> FloorCausticsTexcoord(in_position),
                   caustics_data |-> caustics_data,
                   camera |-> camera,
                   sun_direction |-> sun_direction,
                   sun_impact |-> FAdd(FloorDiffuse(floor_normal, sun_direction),
                                       FloorSpecular(floor_normal, sun_direction,
                                                     camera, in_position)),
                   color |-> FloorColor(texel, caustics_data, floor_normal, in_position,
                                        camera, sun_direction, sun_color)]
    /\ UNCHANGED <<mainVars, accum, clock>>

\* one vertex of the water grid through the water vertex shader (181-187) and
\* get_floor (224-232) for a landing point of a fragment of its triangle
WaterFloorSample ==
    /\ shade.stage = "none"
    /\ \E x \in SampleTimes, y \in SampleTimes, time_ \in SampleTimes,
          pos \in ShadedPoints, texel \in FloorTexels,
          caustics_data \in CausticsTexels, sun_direction \in SunDirections :
         shade' = [stage |-> "get_floor",
                   x |-> x, y |-> y, time |-> time_,
                   position |-> <<x * AngleStep, WaterGetHeight(x, y, time_),
                                  y * AngleStep>>,
                   pos |-> pos,
                   texel |-> texel,
                   caustics_texcoord |-> WaterCausticsTexcoord(pos),
                   caustics_data |-> caustics_data,
                   sun_direction |-> sun_direction,
                   color |-> GetFloor(texel, caustics_data, sun_direction, sun_color)]
    /\ UNCHANGED <<mainVars, accum, clock>>

NextOptics ==
    \/ WaterFragment \/ CausticVertex \/ CausticFragment \/ ShaderWeights
    \/ WaveVertex \/ CausticSample \/ CausticLookup
    \/ FloorFragment \/ WaterFloorSample

SpecOptics == Init /\ [][NextOptics]_vars

(***************************************************************************)
(* Properties of the optical routines.                                     *)
(***************************************************************************)
Up == <<0, Unit, 0>>

\* C9: for a flat surface (normal (0, 1, 0)) and normal incidence (direction
\* (0, 1, 0)) the refracted position both get_refract routines compute for a surface
\* point P is (Px, 0, Pz), the point where the straight ray meets the floor.
C9_NormalIncidenceLandsStraight ==
    (/\ shade.stage \in {"water_fs", "caustic_vs"}
     /\ Normalize(shade.normal) = Up
     /\ shade.direction = Up)
    => shade.refracted_position = <<shade.position[1], 0, shade.position[3]>>

\* C10: for every cosine in [0, 1] the reflect weight of the water and of the
\* caustic fragment shader lies in [0, 1]; and in every invocation with a defined
\* weight the transmit weight is 1 minus the reflect weight, the two adding up to 1.
C10_WeightsSplitUnity ==
    shade.stage \in {"water_fs", "caustic_fs", "weights"} =>
        /\ shade.cosine \in 0..Unit =>
              /\ shade.reflect_weight \in 0..Unit
              /\ shade.transmit_weight \in 0..Unit
        /\ Defined(shade.reflect_weight) =>
              /\ shade.transmit_weight = Unit - shade.reflect_weight
              /\ shade.reflect_weight + shade.transmit_weight = Unit

C10_Witness ==
    /\ shade.stage = "weights" /\ shade.shader = "caustic"
    /\ shade.cosine = 0
    /\ shade.reflect_weight = Unit /\ shade.transmit_weight = 0

\* C11: in the water fragment shader the cosine of the reflect/transmit weights is
\* dot(N, V) with V the unit direction from the surface point to the camera, the
\* direction that is mirrored for the backdrop lookup and refracted for the
\* transmitted term, and the colour is reflect_weight * reflected colour +
\* transmit_weight * transmitted colour.
C11_WeightsFromViewDirection ==
    shade.stage = "water_fs" =>
        /\ shade.cosine = Dot(Normalize(shade.normal), shade.direction)
        /\ shade.reflect_direction = Reflect(shade.normal, shade.direction)
        /\ shade.refracted_position =
               GetRefractWater(shade.direction, n1, n2, shade.normal, shade.position)
        /\ shade.out_color = FAdd(FMul(shade.reflect_weight, shade.reflected_color),
                                  FMul(shade.transmit_weight, shade.transmitted_color))

\* C12: for the same normal, the same direction of interest and the indices
\* n1 = 1.0, n2 = 1.333 the water fragment shader and the caustic fragment shader
\* compute the same reflect weight.
C12_SameReflectance ==
    /\ shade.stage \in {"water_fs", "caustic_fs"} =>
           SchlickWater(WaterCosine(shade.normal, shade.sun_direction, shade.sun_direction))
               = SchlickCaustic(CausticCosine(shade.normal, shade.sun_direction))
    /\ shade.stage = "weights" =>
           SchlickWater(shade.cosine) = SchlickCaustic(shade.cosine)

C12_Witness ==
    /\ shade.stage = "caustic_fs"
    /\ shade.normal = <<600, 1000, -400>> /\ shade.sun_direction = light_direction
    /\ shade.reflect_weight = SchlickWater(shade.cosine)
    /\ shade.reflect_weight \in 1..(Unit - 1)

(***************************************************************************)
(* Accumulation into the colour attachment of caustics_fbo: the clear and  *)
(* the blending of the fragments of the caustics pass (src/main.cpp        *)
(* 705-721, 584-596).  A channel of the GL_RGBA8 texture is a byte; a      *)
(* fragment colour is blended by glBlendFunc(GL_SRC_ALPHA, GL_ONE) under   *)
(* the default blend equation GL_FUNC_ADD and then converted to a byte.    *)
(* GL blends the fragments of one draw call one at a time for each texel,  *)
(* in an order the triangles' rasterisation decides.                       *)
(***************************************************************************)
MaxSamples == 3

MaxByte == 255      \* the largest value of a channel of GL_RGBA8

\* the texels of caustics_tex the model tells apart
Cells == {1, 2}

\* dot(normalize(normal), sun_direction) of the fragments of the model
SampleCosines == {-300, 100, 300}

\* the value of a blend factor of glBlendFunc for the source colour src
BlendFactor(name, src) ==
    CASE name = "GL_ZERO" -> 0
      [] name = "GL_ONE" -> Unit
      [] name = "GL_SRC_ALPHA" -> src[4]
      [] name = "GL_ONE_MINUS_SRC_ALPHA" -> Unit - src[4]

\* one channel of GL_FUNC_ADD: source * sfactor + destination * dfactor, clamped
\* and converted to a byte; d is the byte the texel holds
BlendChannel(c, sf, d, df) ==
    Min(MaxByte, Max(0, Round(FMul(c, sf) * MaxByte + d * df, Unit)))

BlendPixel(func, src, dst) ==
    [ch \in 1..4 |-> BlendChannel(src[ch], BlendFactor(func[1], src),
                                  dst[ch], BlendFactor(func[2], src))]

\* the GL state at the draw call of the caustics pass (703-719)
CausticsState == CausticsCalls(GLInitial, 0)

\* CausticsBlend under glBlendFunc(GL_SRC_ALPHA, GL_ONE_MINUS_SRC_ALPHA)
CausticsBlendOver(src, dst) ==
    BlendPixel(<<"GL_SRC_ALPHA", "GL_ONE_MINUS_SRC_ALPHA">>, src, dst)

\* the blending of one fragment of the caustics pass (709-710)
CausticsBlend(src, dst) == BlendPixel(CausticsState.blendFunc, src, dst)

\* a float in [0, 1] as a byte
ToByte(a) == Round(Clamp01(a) * MaxByte, Unit)

\* glClear of the colour attachment (706-707)
ClearedBuffer ==
    [cell \in Cells |-> [ch \in 1..4 |-> ToByte(CausticsState.clearColor[ch])]]

\* glClearColor, glClear (706-707)
ClearBuffer ==
    /\ accum.stage = "none"
    /\ accum' = [stage |-> "cleared", buffer |-> ClearedBuffer]
    /\ UNCHANGED <<mainVars, shade, clock>>

\* glDrawArrays (721): the fragments of the draw call, each with the texel it
\* covers and the colour the caustic fragment shader gave it
Rasterise ==
    /\ accum.stage = "cleared"
    /\ \E n \in 1..MaxSamples :
         \E cells \in [1..n -> Cells], cosines \in [1..n -> SampleCosines] :
            accum' = [stage |-> "blending",
                      buffer |-> accum.buffer,
                      samples |-> [i \in 1..n |->
                                      [cell |-> cells[i],
                                       out_color |-> CausticOutColor(sun_color,
                                                        SchlickCaustic(cosines[i]))]],
                      pending |-> 1..n]
    /\ UNCHANGED <<mainVars, shade, clock>>

\* the blend stage takes one of the fragments not blended yet
BlendSample ==
    /\ accum.stage = "blending"
    /\ \E i \in accum.pending :
         LET cell == accum.samples[i].cell
         IN accum' = [accum EXCEPT
                        !.buffer[cell] = CausticsBlend(accum.samples[i].out_color, @),
                        !.pending = @ \ {i}]
    /\ UNCHANGED <<mainVars, shade, clock>>

NextAccum == ClearBuffer \/ Rasterise \/ BlendSample

SpecAccum == Init /\ [][NextAccum]_vars

(***************************************************************************)
(* Properties of the accumulation.                                         *)
(***************************************************************************)
RECURSIVE BlendInOrder(_, _, _, _)
\* the buffer after the fragments i..Len(samples) that are in `done` were blended
\* into `buffer` in the order of their indices
BlendInOrder(samples, done, i, buffer) ==
    IF i > Len(samples) THEN buffer
    ELSE BlendInOrder(samples, done, i + 1,
             IF i \in done
             THEN [buffer EXCEPT ![samples[i].cell] =
                                     CausticsBlend(samples[i].out_color, @)]
             ELSE buffer)

\* C13: in whatever order the fragments of the caustics draw call are blended into
\* the cleared buffer, the buffer holds what blending the same fragments in the
\* order of their indices gives; in particular the final contents depend on the
\* set of samples only.
C13_AccumulationOrderIndependent ==
    accum.stage = "blending" =>
        accum.buffer = BlendInOrder(accum.samples,
                                    DOMAIN accum.samples \ accum.pending,
                                    1, ClearedBuffer)

\* all fragments blended, two of them with different colours on one texel, the texel
\* not saturated in its alpha channel
C13_Witness ==
    /\ accum.stage = "blending" /\ accum.pending = {}
    /\ \E i, j \in DOMAIN accum.samples :
         /\ i < j
         /\ accum.samples[i].cell = accum.samples[j].cell
         /\ accum.samples[i].out_color[4] > accum.samples[j].out_color[4]
         /\ accum.samples[j].out_color[4] > 0
         /\ accum.buffer[accum.samples[i].cell][4] < MaxByte

RECURSIVE PlainSum(_, _, _, _)
\* the sum of channel ch of the written values of the samples i..Len(samples) that
\* landed on cell, as bytes
PlainSum(samples, cell, ch, i) ==
    IF i > Len(samples) THEN 0
    ELSE (IF samples[i].cell = cell THEN ToByte(samples[i].out_color[ch]) ELSE 0)
         + PlainSum(samples, cell, ch, i + 1)

\* C18: after the caustics pass every channel of every texel holds the sum,
\* saturated at the largest byte, of that channel of the written values of the
\* samples that landed on the texel, starting from zero.
C18_PlainSaturatedSum ==
    (accum.stage = "blending" /\ accum.pending = {}) =>
        \A cell \in Cells, ch \in 1..4 :
            accum.buffer[cell][ch] = Min(MaxByte, PlainSum(accum.samples, cell, ch, 1))

(***************************************************************************)
(* Properties of the wave field.  A term of the height function is         *)
(* amp * fn(kx * x + kz * z + kt * t) with fn sin or cos; its partial      *)
(* derivatives are taken symbolically.                                     *)
(***************************************************************************)
\* h(x, z, t) - 5 = 0.5 sin(x + t) + 0.2 cos(z + 3t) + 0.1 sin(x + 2z + t)
HeightTerms ==
    <<[amp |-> 500, fn |-> "sin", kx |-> 1, kz |-> 0, kt |-> 1],
      [amp |-> 200, fn |-> "cos", kx |-> 0, kz |-> 1, kt |-> 3],
      [amp |-> 100, fn |-> "sin", kx |-> 1, kz |-> 2, kt |-> 1]>>

\* d/du of amp * fn(... + k * u + ...): sin' = cos, cos' = -sin, times k
Derivative(term, k) ==
    IF term.fn = "sin" THEN [term EXCEPT !.amp = term.amp * k, !.fn = "cos"]
    ELSE [term EXCEPT !.amp = -term.amp * k, !.fn = "sin"]

DerivativeX(terms) == [i \in DOMAIN terms |-> Derivative(terms[i], terms[i].kx)]

DerivativeZ(terms) == [i \in DOMAIN terms |-> Derivative(terms[i], terms[i].kz)]

EvalTerm(term, x, z, t) ==
    LET angle == term.kx * x + term.kz * z + term.kt * t
    IN FMul(term.amp, IF term.fn = "sin" THEN Sin12(angle) ELSE Cos12(angle))

RECURSIVE EvalTerms(_, _, _, _, _)
EvalTerms(terms, i, x, z, t) ==
    IF i > Len(terms) THEN 0
    ELSE EvalTerm(terms[i], x, z, t) + EvalTerms(terms, i + 1, x, z, t)

\* C14: at every (x, z, t) the height of the water vertex shader is
\* 5 + 0.5 sin(x + t) + 0.2 cos(z + 3t) + 0.1 sin(x + 2z + t), its two slope
\* functions are the partial derivatives of that height with respect to x and to z,
\* and the caustic vertex shader's height and slopes have the same values.
C14_SlopesAreDerivatives ==
    shade.stage = "wave" =>
        /\ shade.water.height =
               5 * Unit + EvalTerms(HeightTerms, 1, shade.x, shade.y, shade.time)
        /\ shade.water.dhdx =
               EvalTerms(DerivativeX(HeightTerms), 1, shade.x, shade.y, shade.time)
        /\ shade.water.dhdy =
               EvalTerms(DerivativeZ(HeightTerms), 1, shade.x, shade.y, shade.time)
        /\ shade.caustic = shade.water

\* a vertex and time at which each of the three terms contributes to both slopes or
\* to the height
C14_Witness ==
    /\ shade.stage = "wave"
    /\ shade.x = 1 /\ shade.y = 1 /\ shade.time = 1
    /\ shade.water.height = 5 * Unit + 433 - 100 + 87
    /\ shade.water.dhdx = 250 - 50
    /\ shade.caustic.dhdy = -173 - 100

(***************************************************************************)
(* Properties of the refraction routine, of the caustic samples and of the *)
(* transmitted term.                                                       *)
(***************************************************************************)
\* sqrt(max(0, 1 - a^2))
SqrtOfComplement(a) == FSqrt(Max(0, FSub(Unit, FMul(a, a))))

\* cos_t for cos_i: sin_i = sqrt(max(0, 1 - cos_i^2)), sin_t = r1 * sin_i / r2,
\* cos_t = sqrt(max(0, 1 - sin_t^2))
CosT(cos_i, r1, r2) == SqrtOfComplement(FDiv(FMul(r1, SqrtOfComplement(cos_i)), r2))

\* an offset scaled by (r1 / r2) * (cos_i / cos_t)
ScaledOffset(c, cos_i, cos_t, r1, r2) == FDiv(FMul(FDiv(FMul(c, r1), r2), cos_i), cos_t)

\* the point where the straight ray from P against direction D meets the floor y = 0
StraightHit(P, D) ==
    <<FAdd(FDiv(FMul(-D[1], P[2]), D[2]), P[1]), 0,
      FAdd(FDiv(FMul(-D[3], P[2]), D[2]), P[3])>>

\* the horizontal projection (Px, 0, Pz) of P plus the scaled offset of the straight
\* hit from it
LandingPoint(P, D, cos_i, r1, r2) ==
    <<FAdd(P[1], ScaledOffset(FSub(StraightHit(P, D)[1], P[1]),
                              cos_i, CosT(cos_i, r1, r2), r1, r2)),
      0,
      FAdd(P[3], ScaledOffset(FSub(StraightHit(P, D)[3], P[3]),
                              cos_i, CosT(cos_i, r1, r2), r1, r2))>>

\* C16: for a surface point P, a unit direction D with D.y # 0 and a unit normal N
\* both refraction routines return (Px, 0, Pz) plus the horizontal offset of the
\* straight-ray floor hit from (Px, 0, Pz), scaled by (n1 / n2) * (cos_i / cos_t).
C16_RefractionFormula ==
    /\ (shade.stage = "water_fs" /\ shade.direction[2] # 0) =>
           shade.refracted_position =
               LandingPoint(shade.position, shade.direction,
                            Dot(Normalize(shade.normal), shade.direction), n1, n2)
    /\ (shade.stage = "caustic_vs" /\ shade.direction[2] # 0) =>
           shade.refracted_position =
               LandingPoint(shade.position, shade.direction,
                            Dot(Normalize(shade.normal), shade.direction),
                            n1, n2_caustic_vertex)

\* C17: a caustic sample is written with the colour of the light and, as its alpha,
\* 1 - R(dot(N, light_direction)), N being the normal of the wave field at the
\* vertex and time that gave the sample its position in the buffer.
C17_SampleCarriesVertexWeight ==
    shade.stage = "caustic_sample" =>
        /\ shade.vertex_normal =
               WaveNormal(CausticDhdx(shade.x, shade.y, shade.time),
                          CausticDhdy(shade.x, shade.y, shade.time))
        /\ shade.out_color =
               <<sun_color[1], sun_color[2], sun_color[3],
                 FSub(Unit, SchlickCaustic(Dot(Normalize(shade.vertex_normal),
                                               light_direction)))>>

\* C19: a sample landing on floor point (x, z) is written at clip coordinate
\* 2 * (x / 40, z / 8) - 1, the floor and the water fragment shader read the caustic
\* texture at (x / 40, z / 8) for that point, and the texel written is the texel
\* both read.
C19_WriteAndReadsMeet ==
    shade.stage = "caustic_lookup" =>
        LET u == FDiv(shade.point[1], 40 * Unit)
            v == FDiv(shade.point[3], 8 * Unit)
        IN /\ shade.gl_Position = <<2 * u - Unit, 2 * v - Unit>>
           /\ shade.floor_texcoord = <<u, v>>
           /\ shade.water_texcoord = <<u, v>>
           /\ shade.written = shade.floor_reads
           /\ shade.written = shade.water_reads
           /\ shade.written = <<(u * caustics_resolution) \div Unit,
                                (v * caustics_resolution) \div Unit>>

\* a point inside the floor, off its diagonal, whose texel is none of the corners
C19_Witness ==
    /\ shade.stage = "caustic_lookup"
    /\ shade.point = <<10000, 0, 6000>>
    /\ shade.written = <<caustics_resolution \div 4, 3 * (caustics_resolution \div 4)>>
    /\ shade.floor_reads = shade.written /\ shade.water_reads = shade.written

\* C20: the transmitted term of a water fragment comes from the floor at the
\* refracted position if that position has 0 < x < floor_width and
\* 0 < z < floor_height, and otherwise from the environment map along the
\* normalised direction from the fragment's position to the refracted position;
\* also when the refracted position is not a number.
C20_FloorOrBackdrop ==
    shade.stage = "water_fs" =>
        LET x == shade.refracted_position[1]
            z == shade.refracted_position[3]
            inside == /\ Defined(x) /\ Defined(z)
                      /\ 0 < x /\ x < floor_width * Unit
                      /\ 0 < z /\ z < floor_height * Unit
        IN /\ shade.branch \in {"floor", "backdrop"}
           /\ inside => (shade.branch = "floor" /\ shade.sample_at = shade.refracted_position)
           /\ ~inside =>
                  /\ shade.branch = "backdrop"
                  /\ shade.sample_at =
                         Normalize(VSub(shade.refracted_position, shade.position))

\* a fragment whose refracted position is on the floor
C20_Witness ==
    /\ shade.stage = "water_fs" /\ shade.branch = "floor"
    /\ shade.refracted_position[1] \in 1..(floor_width * Unit - 1)
    /\ shade.refracted_position[3] \in 1..(floor_height * Unit - 1)

\* a fragment whose refracted position has x on the floor and z beyond it
C20_WitnessBackdrop ==
    /\ shade.stage = "water_fs" /\ shade.branch = "backdrop"
    /\ shade.refracted_position[1] \in 1..(floor_width * Unit - 1)
    /\ shade.refracted_position[3] > floor_height * Unit
    /\ Defined(shade.sample_at[1])

\* a fragment seen from its own height: direction.y = 0 and no refracted position
C20_WitnessUndefined ==
    /\ shade.stage = "water_fs" /\ shade.branch = "backdrop"
    /\ shade.direction[2] = 0
    /\ ~Defined(shade.refracted_position[1])

\* ---------------------------------------------------------------------------
\* C21: every refraction and reflectance computation of the caustic pass and of
\* the water pass uses the indices n1 = 1.0 and n2 = 1.333: the water fragment
\* shader, the caustic vertex shader and the caustic fragment shader all compute
\* with the pair (1.0, 1.333).
C21_SameIndices ==
    shade.stage \in {"water_fs", "caustic_vs", "caustic_fs"} =>
        shade.indices = <<Unit, 1333>>

\* the render-state flags a draw call is issued under
RenderState(g) == <<g.depthTest, g.blend, g.cullFace, g.drawFbo, g.viewport>>

\* the GL state at the draw call of each pass of the first iteration, in a window
\* of w x h: the calls of the passes applied in order to the state of a new context
FirstCaustics(w, h) == CausticsCalls(glViewport(GLInitial, w, h), 0)

FirstEnvironment(w, h) == EnvironmentCalls(FirstCaustics(w, h), w, h)

FirstFloor(w, h) == FloorCalls(FirstEnvironment(w, h), w, h)

FirstWater(w, h) == WaterCalls(FirstFloor(w, h), 0, w, h)

FirstFrameState(pass, w, h) ==
    CASE pass = "CAUSTICS_PASS" -> RenderState(FirstCaustics(w, h))
      [] pass = "BACKDROP_PASS" -> RenderState(FirstEnvironment(w, h))
      [] pass = "FLOOR_PASS" -> RenderState(FirstFloor(w, h))
      [] pass = "WATER_PASS" -> RenderState(FirstWater(w, h))

\* C22: no render state is carried from one frame into the next: at the draw call
\* of every pass of every frame, depth test, blending, face culling, the bound
\* draw framebuffer and the viewport are what they are at the draw call of the
\* same pass in the first frame, for the same window size.
C22_NoCarriedRenderState ==
    \A e \in Entries :
        e.pass # "PRESENT" =>
            <<e.depthTest, e.blend, e.cullFace, e.drawFbo, e.viewport>>
                = FirstFrameState(e.pass, width, height)

\* C23: in every frame the BACKDROP_PASS draw call is issued with the window's
\* framebuffer bound and the depth test disabled, after that framebuffer has been
\* cleared in the same frame (one clear per frame, this frame's included), and
\* nothing has been drawn to it between the clear and the backdrop draw.
C23_BackdropOnClearedScreen ==
    /\ pc \in {"floor", "water", "swap"} =>
           (Len(frameLog) >= 2 /\ frameLog[2].pass = "BACKDROP_PASS")
    /\ \A e \in Entries :
           e.pass = "BACKDROP_PASS" =>
               /\ e.drawFbo = "default"
               /\ ~e.depthTest
               /\ e.screenClears = e.frame + 1
               /\ e.screenBefore = <<>>

C23_Witness ==
    /\ pc = "floor" /\ frame >= 1
    /\ frameLog[2].pass = "BACKDROP_PASS" /\ frameLog[2].frame = frame
    /\ frameLog[2].screenClears = frame + 1
    /\ frameLog[2].screenBefore = <<>>
    /\ gl.screen = <<"BACKDROP_PASS">>

\* C24: in every frame the FLOOR_PASS and WATER_PASS draw calls are issued with the
\* window's framebuffer bound and the depth test enabled, the WATER_PASS draw call
\* with blending disabled, and no draw call to the window's framebuffer is issued
\* with the blending of CAUSTICS_PASS still enabled.
C24_FloorAndWaterState ==
    /\ pc \in {"water", "swap"} =>
           (Len(frameLog) >= 3 /\ frameLog[3].pass = "FLOOR_PASS")
    /\ pc = "swap" => (Len(frameLog) >= 4 /\ frameLog[4].pass = "WATER_PASS")
    /\ \A e \in Entries :
           /\ e.pass \in {"FLOOR_PASS", "WATER_PASS"} =>
                  (e.drawFbo = "default" /\ e.depthTest)
           /\ e.pass = "WATER_PASS" => ~e.blend
           /\ (e.pass # "PRESENT" /\ e.drawFbo = "default") => ~e.blend

C24_Witness ==
    /\ pc = "swap" /\ frame >= 1
    /\ frameLog[1].pass = "CAUSTICS_PASS" /\ frameLog[1].blend
    /\ frameLog[3].pass = "FLOOR_PASS" /\ frameLog[3].depthTest /\ ~frameLog[3].blend
    /\ frameLog[4].pass = "WATER_PASS" /\ frameLog[4].depthTest /\ ~frameLog[4].blend
    /\ frameLog[4].drawFbo = "default"

\* C25: at every draw call of a visible pass (BACKDROP, FLOOR, WATER) the viewport
\* is (0, 0, width, height) and the program in use has a projection whose aspect
\* ratio is width / height, for the size of the window's last resize (or of its
\* creation); at every CAUSTICS_PASS draw call the viewport is 512 x 512; the
\* 512 x 512 viewport is never in effect when a draw call goes to the window.
C25_ViewportAndProjectionFollowWindow ==
    \A e \in Entries :
        /\ e.pass \in {"BACKDROP_PASS", "FLOOR_PASS", "WATER_PASS"} =>
               /\ e.viewport = <<width, height>>
               /\ e.projection = {perspective(width, height)}
        /\ e.pass = "CAUSTICS_PASS" =>
               e.viewport = <<caustics_resolution, caustics_resolution>>
        /\ (e.pass # "PRESENT" /\ e.drawFbo = "default") =>
               e.viewport # <<caustics_resolution, caustics_resolution>>

\* the part of C25 the code satisfies: the viewports, and the projection of the
\* floor and water programs
C25_ExceptBackdropProjection ==
    \A e \in Entries :
        /\ e.pass \in {"BACKDROP_PASS", "FLOOR_PASS", "WATER_PASS"} =>
               e.viewport = <<width, height>>
        /\ e.pass \in {"FLOOR_PASS", "WATER_PASS"} =>
               e.projection = {perspective(width, height)}
        /\ e.pass = "BACKDROP_PASS" => e.projection = {}
        /\ e.pass = "CAUSTICS_PASS" =>
               e.viewport = <<caustics_resolution, caustics_resolution>>

\* the program each pass draws with
ProgramOf(pass) ==
    CASE pass = "CAUSTICS_PASS" -> "caustics_program"
      [] pass = "BACKDROP_PASS" -> "env_program"
      [] pass = "FLOOR_PASS" -> "floor_program"
      [] pass = "WATER_PASS" -> "water_program"

\* C26: at every FLOOR_PASS and WATER_PASS draw call the caustic sampler of the
\* program in use reads the caustic buffer's texture and the floor-colour sampler
\* (tex of the floor program, floor_tex of the water program) reads the floor
\* image; at every WATER_PASS and BACKDROP_PASS draw call the environment sampler
\* reads the cube map; every pass draws with its own program and no uniform has
\* been written through a location of a program that was not in use.
C26_SamplersAndOwnProgram ==
    \A e \in Entries :
        e.pass # "PRESENT" =>
            /\ e.program = ProgramOf(e.pass)
            /\ e.misdirected = {}
            /\ e.pass \in {"FLOOR_PASS", "WATER_PASS"} =>
                   <<"caustics_tex", "caustics_tex">> \in e.reads
            /\ e.pass = "FLOOR_PASS" => <<"tex", "tex">> \in e.reads
            /\ e.pass = "WATER_PASS" => <<"floor_tex", "tex">> \in e.reads
            /\ e.pass \in {"WATER_PASS", "BACKDROP_PASS"} =>
                   <<"tex", "env_tex">> \in e.reads

C26_Witness ==
    /\ pc = "swap" /\ frame >= 1
    /\ frameLog[2].reads = {<<"tex", "env_tex">>}
    /\ frameLog[3].reads = {<<"tex", "tex">>, <<"caustics_tex", "caustics_tex">>}
    /\ frameLog[4].reads = {<<"tex", "env_tex">>, <<"floor_tex", "tex">>,
                            <<"caustics_tex", "caustics_tex">>}
    /\ frameLog[4].misdirected = {}

\* ---------------------------------------------------------------------------
\* the caustic buffer where no sample landed
ZeroTexel == <<0, 0, 0, 0>>

\* the shading of a floor texel without caustics: texel * ambient_light +
\* texel * sun_impact * sun_light, per channel
PlainShade(texel, sun_impact) ==
    [i \in 1..3 |-> FAdd(FMul(texel[i], ambient_light[i]),
                         FMul(FMul(texel[i], sun_impact), sun_color[i]))]

\* the colour the floor fragment of shade has when the caustic buffer is zero
FloorColorUnlit ==
    FloorColor(shade.texel, ZeroTexel, shade.normal, shade.position, shade.camera,
               shade.sun_direction, sun_color)

NoDarker(color, base) == \A i \in 1..3 : color[i] >= base[i]

\* C27: caustic sampling is purely additive on the floor.  With a zero caustic
\* texel the colour of the floor fragment shader and of get_floor is the shading of
\* the floor texel alone; for any caustic texel (its channels are in [0, 1]) the
\* colour is in no channel darker than with a zero texel; and the position of a
\* floor vertex and of a water vertex is a function of the vertex and of time only.
C27_CausticsOnlyAdd ==
    /\ shade.stage = "floor_fs" =>
           /\ FloorColorUnlit = PlainShade(shade.texel, shade.sun_impact)
           /\ shade.caustics_data = ZeroTexel => shade.color = FloorColorUnlit
           /\ NoDarker(shade.color, FloorColorUnlit)
           /\ shade.position = shade.in_position
    /\ shade.stage = "get_floor" =>
           /\ GetFloor(shade.texel, ZeroTexel, shade.sun_direction, sun_color)
                  = PlainShade(shade.texel, WaterDiffuse(shade.sun_direction))
           /\ shade.caustics_data = ZeroTexel =>
                  shade.color = PlainShade(shade.texel, WaterDiffuse(shade.sun_direction))
           /\ NoDarker(shade.color,
                       GetFloor(shade.texel, ZeroTexel, shade.sun_direction, sun_color))
           /\ shade.position = <<shade.x * AngleStep,
                                 WaterGetHeight(shade.x, shade.y, shade.time),
                                 shade.y * AngleStep>>

\* a floor fragment in the sun's mirror direction, lit by a caustic texel
C27_Witness ==
    /\ shade.stage = "floor_fs"
    /\ shade.caustics_data = <<Unit, 900, 800, 600>>
    /\ shade.texel = <<900, 600, 300>>
    /\ shade.sun_impact = 4 * Unit
    /\ \A i \in 1..3 : shade.color[i] > FloorColorUnlit[i]

\* ---------------------------------------------------------------------------
\* the keys that move or turn the camera
CameraKeys == AllKeys \ {"p"}

Camera == <<camera_position, camera_rotation, view_angle>>

PassPcs == {"caustics", "environment", "floor", "water", "swap"}

\* a step of C28: the camera changes only in the camera update of a frame, with a
\* movement or rotation key held; the passes and the swap leave the camera, the
\* pause flag and time alone
CameraStep ==
    /\ Camera' # Camera => (pc = "advance" /\ \E k \in CameraKeys : button_down[k])
    /\ (pc \in PassPcs) => (Camera' = Camera /\ paused' = paused /\ time' = time)

\* C28: camera position, yaw and pitch change only as a result of input: in a
\* frame in which no movement or rotation key is recorded as held they are
\* unchanged, and no rendering pass modifies camera position, yaw, pitch, the
\* pause flag or time.
C28_CameraOnlyByInput == [][CameraStep]_vars

\* a frame that moved the camera with w held, and the passes of that frame done
C28_Witness ==
    /\ pc = "swap" /\ frame >= 1 /\ Len(frameLog) = 4
    /\ button_down["w"] /\ dt > 0
    /\ camera_position # <<0, 0, 0>>

\* a frame with elapsed time and no key held, after the camera had moved
C28_WitnessIdle ==
    /\ pc = "caustics" /\ dt > 0
    /\ \A k \in CameraKeys : ~button_down[k]
    /\ camera_position # <<0, 0, 0>>

\* ---------------------------------------------------------------------------
\* C29: the refraction step never divides by zero: in the water fragment shader
\* the vertical component of the viewer direction is non-zero for every camera
\* position and surface point, in the caustic vertex shader the vertical component
\* of the light direction is non-zero, and in both refract_cosine is strictly
\* positive.
C29_NoDivisionByZero ==
    /\ light_direction[2] # 0
    /\ shade.stage \in {"water_fs", "caustic_vs"} =>
           /\ shade.direction[2] # 0
           /\ shade.refract_cosine > 0

\* the two parts of C29 that hold: the light direction is never horizontal and
\* refract_cosine is strictly positive
C29_LightAndCosT ==
    /\ light_direction[2] > 0
    /\ shade.stage \in {"water_fs", "caustic_vs"} => shade.refract_cosine > 0
    /\ shade.stage = "caustic_vs" => shade.direction[2] > 0

(***************************************************************************)
(* The frame clock: the measurement of dt against the running clock        *)
(* (src/main.cpp 602, 638-642, 651-657).  The main specification draws dt  *)
(* from 0..MaxDt; here the clock runs and dt is what main measures.        *)
(***************************************************************************)
MaxClock == 5       \* ticks of the clock the model follows

clockFixed == <<pc, programs, gl, width, height, running, camera_position, camera_front,
                camera_rotation, view_angle, polled, frame, frameLog, failure, out,
                exception, exitStatus, shade, accum, window, gl_context>>

\* last_frame_start kept over a frame measured with the pause flag set
LastFrameStartHeldInPause(last, now_) == IF paused THEN last ELSE now_

\* last_frame_start = now (653)
LastFrameStart(last, now_) == now_

\* the clock advances while main runs
ClockTick ==
    /\ clock.now < MaxClock
    /\ clock' = [clock EXCEPT !.now = @ + 1]
    /\ UNCHANGED <<paused, time, dt, button_down>>
    /\ UNCHANGED clockFixed

\* SDL_KEYDOWN of p (638-642)
ClockKeyDownP ==
    /\ button_down' = [button_down EXCEPT !["p"] = TRUE]
    /\ paused' = ~paused
    /\ UNCHANGED <<time, dt, clock>>
    /\ UNCHANGED clockFixed

\* now, dt, last_frame_start and time of one iteration (651-657)
ClockFrame ==
    /\ dt' = clock.now - clock.last_frame_start
    /\ time' = AdvanceTime(time, dt')
    /\ clock' = [clock EXCEPT
                   !.last_frame_start = LastFrameStart(@, clock.now),
                   !.previous_at = clock.measured_at,
                   !.measured_at = clock.now,
                   !.paused_elapsed = @ + (IF paused THEN clock.now - clock.measured_at
                                           ELSE 0)]
    /\ UNCHANGED <<paused, button_down>>
    /\ UNCHANGED clockFixed

NextClock == ClockTick \/ ClockKeyDownP \/ ClockFrame

SpecClock == Init /\ [][NextClock]_vars

\* C30: time spent paused is never added to time.  dt is measured against the
\* previous measurement in every frame, with the pause flag set or not, so that
\* dt is the elapsed time of one frame and time is the clock at the last
\* measurement less the time elapsed in the frames measured with the flag set:
\* the first frame after a pause adds that frame's elapsed time only.
C30_PausedTimeNotCounted ==
    /\ clock.last_frame_start = clock.measured_at
    /\ dt = clock.measured_at - clock.previous_at
    /\ time + clock.paused_elapsed = clock.measured_at

\* the first unpaused frame after paused frames that took 2 ticks: time is that
\* frame's dt alone
C30_Witness ==
    /\ ~paused /\ clock.paused_elapsed = 2
    /\ dt = 1 /\ time = 1
    /\ clock.measured_at = 3 /\ clock.now = 3

====
